---- MODULE Spec2Model ----
(***************************************************************************)
(* Hive-Earnings: the retry helper (utils.js), the endpoint registry and   *)
(* the API wrappers (apis/beacon.js), the ledger scans (analyzers) and the *)
(* orchestrator (services/orchestrator.js).                                *)
(*                                                                         *)
(* Javascript is single threaded: the code between two awaits runs without *)
(* interruption, so one action is one such stretch, from the event that    *)
(* resumes a coroutine to the next await it reaches.                       *)
(***************************************************************************)
EXTENDS Integers, Sequences, FiniteSets, TLC

VARIABLES
    wr,         \* the activation of withRetries under study
    now,        \* Date.now(), in ms
    cache,      \* beacon.js: cache[type] = [nodes, lastFetch]
    gn,         \* activations of getNodeEndpoint, per caller
    bg,         \* the background refresh of the class under study
    api,        \* the logical call (hiveApiCall / hiveEngineApiCall / hiveEngineHistoryApiCall)
    scan,       \* one ledger scan (analyzeInbound / analyzeOutbound)
    remote,     \* the remote history the scan reads, or the feed the registry reads
    cfg,        \* the configuration object shared by the analyzer and its services
    calls,      \* activations of inbounds / outbounds
    ops,        \* what each call awaits: its scans or its prices
    remoteCalls, \* number of remote requests issued by the orchestrator's calls
    inflight,   \* the operations of one batch call that have started and not settled
    price,      \* HivePriceProvider: its memo and the activation of getHiveUsd
    rep,        \* the aggregation of one account's report
    runs,       \* the scans of one account made so far and the request under way
    lookup      \* one token-price lookup through its three retry layers

vars == <<wr, now, cache, gn, bg, api, scan, remote, cfg, calls, ops, remoteCalls,
          inflight, price, rep, runs, lookup>>

None == "none"

\* ------------------------------------------------------------------------
\* bounds
\* ------------------------------------------------------------------------
MaxRetries == 4
MaxFeedLen == 2
MaxAdvances == 1
MaxHist == 3
MaxLimit == 3
MaxGrown == 4
MaxCalls == 2
StartTime == 1000000
MaxPriceCalls == 3
MaxPriceAdvances == 3

\* ------------------------------------------------------------------------
\* utils.js: withRetries
\* ------------------------------------------------------------------------
DEFAULT_RETRIES == 3
DEFAULT_BASE_DELAY == 300

BaseDelays == {DEFAULT_BASE_DELAY, 100}
FnValues == {"v1", "v2"}
FnErrors == {"e1", "e2"}

\* 2 ** attempt * baseDelay
expWaitDoubled(attempt, baseDelay) == (2 ^ (attempt + 1)) * baseDelay
expWait(attempt, baseDelay) == (2 ^ attempt) * baseDelay

\* lastErr = err
lastErrKeepFirst(prev, err) == IF prev = None THEN err ELSE prev
lastErrOf(prev, err) == err

\* for (...; attempt < retries; ...)
loopTest(attempt, retries) == attempt < retries

WrIdle ==
    [pc |-> "idle", retries |-> 0, baseDelay |-> 0, attempt |-> 0,
     lastErr |-> None, result |-> None, slept |-> 0,
     invocations |-> 0, failures |-> 0, outcome |-> None]

\* The loop head: either fn(attempt) is invoked or lastErr is thrown.
\* invocations counts the calls of fn, failures those that threw; slept is the
\* sleep that preceded the current invocation and outcome what the latest
\* invocation returned or threw.
WrEnter(w) ==
    IF loopTest(w.attempt, w.retries)
    THEN [w EXCEPT !.pc = "fn", !.invocations = @ + 1, !.outcome = "pending"]
    ELSE [w EXCEPT !.pc = "thrown", !.result = w.lastErr]

WrStart(retries, baseDelay) ==
    WrEnter([WrIdle EXCEPT !.retries = retries, !.baseDelay = baseDelay])

\* return await fn(attempt)
WrFnReturn(w, v) ==
    [w EXCEPT !.pc = "returned", !.result = v, !.outcome = v]

\* catch (err): lastErr = err; sleep unless this was the last attempt
WrFnThrow(w, e) ==
    LET w1 == [w EXCEPT !.lastErr = lastErrOf(w.lastErr, e),
                        !.failures = @ + 1, !.outcome = e]
    IN IF w.attempt < w.retries - 1
       THEN [w1 EXCEPT !.pc = "sleep"]
       ELSE WrEnter([w1 EXCEPT !.attempt = @ + 1])

\* the sleep is over: attempt++ and back to the loop head
WrWake(w) ==
    WrEnter([w EXCEPT !.attempt = @ + 1,
                      !.slept = expWait(w.attempt, w.baseDelay)])

\* ------------------------------------------------------------------------
\* apis/beacon.js: the endpoint cache, refreshNodes, getNodeEndpoint
\* ------------------------------------------------------------------------
Types == {"hive", "he", "heh"}

REQUIRED_FEATURES ==
    [hive |-> "get_account_history", he |-> "check_market_metrics",
     heh |-> "get_account_history"]

DEFAULT_NODES ==
    [hive |-> <<"https://api.hive.blog", "https://api.deathwing.me",
                "https://hive-api.arcange.eu", "https://api.openhive.network",
                "https://anyx.io">>,
     he   |-> <<"https://engine.rishipanthee.com", "https://api.primersion.com",
                "https://he.ausbit.dev">>,
     heh  |-> <<"https://engine.rishipanthee.com", "https://api.primersion.com",
                "https://he.ausbit.dev">>]

HEALTH_STALE_AFTER_MS == 600000
POLL_PERIOD_MS == HEALTH_STALE_AFTER_MS - 500
MAX_PROBES == 3

Range(s) == {s[i] : i \in DOMAIN s}
SeqsUpTo(S, n) == UNION {[1..k -> S] : k \in 0..n}

\* nodes.filter(n => n !== url)
FilterOut(nodes, url) == SelectSeq(nodes, LAMBDA n : n # url)

\* What the discovery feed of a class may answer: a list of entries, a list
\* that is no array of well-formed entries, or nothing (failure, timeout).
FeedUrls(type) == {DEFAULT_NODES[type][1], "https://x.example"}
healthyEntry(type, url) ==
    [endpoint |-> url, score |-> 100, fail |-> 0,
     features |-> {REQUIRED_FEATURES[type], "other_feature"}]
\* an entry that misses one of the three conditions
UnhealthyEntries(type) ==
    {[healthyEntry(type, "https://x.example") EXCEPT !.score = 99],
     [healthyEntry(type, "https://x.example") EXCEPT !.fail = 1],
     [healthyEntry(type, "https://x.example") EXCEPT !.features = {"other_feature"}]}
HealthyLists(type) ==
    {l \in SeqsUpTo({healthyEntry(type, u) : u \in FeedUrls(type)}, MaxFeedLen) :
        \A i, j \in DOMAIN l : i # j => l[i] # l[j]}
\* every list of distinct healthy entries, alone or after one unhealthy entry
FeedLists(type) ==
    HealthyLists(type)
    \cup {<<e>> \o l : e \in UnhealthyEntries(type),
                        l \in {h \in HealthyLists(type) : Len(h) <= 1}}
FeedResponses ==
    [type \in Types |->
        {[kind |-> "list", nodes |-> l] : l \in FeedLists(type)}
        \cup {[kind |-> "malformed", nodes |-> <<>>], [kind |-> "fail", nodes |-> <<>>]}]

isHealthyAnyFail(type, n) ==
    /\ n.score = 100
    /\ REQUIRED_FEATURES[type] \in n.features
isHealthy(type, n) ==
    /\ n.score = 100
    /\ n.fail = 0
    /\ REQUIRED_FEATURES[type] \in n.features

\* refreshNodes without the fallback to DEFAULT_NODES[type]
refreshedNodesNoFallback(type, resp) ==
    IF resp.kind = "list"
    THEN LET healthy == SelectSeq(resp.nodes, LAMBDA n : isHealthy(type, n))
         IN [i \in 1..Len(healthy) |-> healthy[i].endpoint]
    ELSE <<>>
\* refreshNodes: the list it stores in cache[type].nodes
refreshedNodes(type, resp) ==
    IF resp.kind = "list"
    THEN LET healthy == SelectSeq(resp.nodes, LAMBDA n : isHealthy(type, n))
         IN IF Len(healthy) > 0
            THEN [i \in 1..Len(healthy) |-> healthy[i].endpoint]
            ELSE DEFAULT_NODES[type]
    ELSE DEFAULT_NODES[type]

\* refreshNodes whose catch blocks leave cache[type].lastFetch alone
refreshNodesKeepingStamp(type, resp, c) ==
    [c EXCEPT ![type] =
        [nodes |-> refreshedNodes(type, resp),
         lastFetch |-> IF resp.kind = "list" THEN now ELSE c[type].lastFetch]]
refreshNodes(type, resp, c) ==
    [c EXCEPT ![type] = [nodes |-> refreshedNodes(type, resp), lastFetch |-> now]]

\* calls counts the calls the caller has made; refreshed tells whether a
\* refresh of the class has completed since the current call began
GnIdle ==
    [pc |-> "idle", prevUrl |-> None, attempt |-> 1, url |-> None, err |-> None,
     calls |-> 0, refreshed |-> FALSE]

\* Math.floor(Math.random() * list.length) for the lists of the model
Randoms == 0..4
validRandom(nodes, r) == IF Len(nodes) = 0 THEN r = 0 ELSE r < Len(nodes)

\* list[Math.floor(Math.random() * list.length)], then the HEAD probe is sent
gnSelect(g, nodes, r) ==
    IF Len(nodes) = 0
    THEN [g EXCEPT !.pc = "thrown", !.err = "No healthy nodes available"]
    ELSE [g EXCEPT !.pc = "probing", !.url = nodes[(r % Len(nodes)) + 1]]

\* getNodeEndpoint without its first statement
keepPrev(nodes, prevUrl) == nodes
\* if (prevUrl) cache[type].nodes = cache[type].nodes.filter(n => n !== prevUrl)
dropPrev(nodes, prevUrl) ==
    IF prevUrl # None THEN FilterOut(nodes, prevUrl) ELSE nodes

\* getNodeEndpoint up to its first await: [g, c] is the activation and the cache
gnEnterTestFirst(type, g, c, r) ==
    LET nodes == dropPrev(c[type].nodes, g.prevUrl)
        c1 == [c EXCEPT ![type].nodes = nodes]
        hasCachedNodes == Len(c[type].nodes) > 0
        hasStaleNodes == (now - c[type].lastFetch) > HEALTH_STALE_AFTER_MS
    IN IF ~hasCachedNodes \/ hasStaleNodes
       THEN [g |-> [g EXCEPT !.pc = "refreshing"], c |-> c1, valid |-> r = 0]
       ELSE [g |-> gnSelect(g, nodes, r), c |-> c1, valid |-> validRandom(nodes, r)]
gnEnter(type, g, c, r) ==
    LET nodes == dropPrev(c[type].nodes, g.prevUrl)
        c1 == [c EXCEPT ![type].nodes = nodes]
        hasCachedNodes == Len(nodes) > 0
        hasStaleNodes == (now - c[type].lastFetch) > HEALTH_STALE_AFTER_MS
    IN IF ~hasCachedNodes \/ hasStaleNodes
       THEN [g |-> [g EXCEPT !.pc = "refreshing"], c |-> c1, valid |-> r = 0]
       ELSE [g |-> gnSelect(g, nodes, r), c |-> c1, valid |-> validRandom(nodes, r)]

\* await refreshNodes(type) is over
gnRefreshed(type, g, c, resp, r) ==
    LET c1 == refreshNodes(type, resp, c)
    IN [g |-> gnSelect(g, c1[type].nodes, r), c |-> c1,
        valid |-> validRandom(c1[type].nodes, r)]

\* the probe failed
gnProbeFailedNoCap(type, g, c) ==
    [g |-> [g EXCEPT !.pc = "backoff"],
     c |-> [c EXCEPT ![type].nodes = FilterOut(@, g.url)]]
gnProbeFailed(type, g, c) ==
    IF g.attempt = MAX_PROBES
    THEN [g |-> [g EXCEPT !.pc = "thrown", !.err = "client has no connectivity"],
          c |-> c]
    ELSE [g |-> [g EXCEPT !.pc = "backoff"],
          c |-> [c EXCEPT ![type].nodes = FilterOut(@, g.url)]]

\* sleep((2 ** attempt) * baseDelay) is over: getNodeEndpoint({type, prevUrl}, ++attempt)
gnRetry(type, g, c, r) ==
    gnEnter(type, [g EXCEPT !.attempt = @ + 1], c, r)

\* ------------------------------------------------------------------------
\* apis/beacon.js: hiveApiCall, hiveEngineApiCall, hiveEngineHistoryApiCall
\* ------------------------------------------------------------------------
Callers == {"api", "other", "third"}
ApiRetries == {DEFAULT_RETRIES}

ApiIdle ==
    [pc |-> "idle", type |-> "hive", retries |-> DEFAULT_RETRIES,
     apiEndpoint |-> None, error |-> None, issuedAt |-> -1]

BgIdle == [pc |-> "idle", nextPoll |-> 0, advances |-> 0]

CacheEmpty == [t \in Types |-> [nodes |-> <<>>, lastFetch |-> 0]]

\* the remote request of attempt `attempt` leaves for a.apiEndpoint;
\* issuedAt is the latest attempt that got as far as its remote request
issueRpc(a, attempt) ==
    [a EXCEPT !.pc = "rpc", !.issuedAt = attempt]

\* fn threw inside withRetries: the logical call sleeps or gives up
apiAfterThrow(a, w) ==
    [a EXCEPT !.pc = IF w.pc = "sleep" THEN "wait" ELSE "done"]

\* The caller of getNodeEndpoint resumes with the activation's outcome g:
\* [a, w] are the logical call and its withRetries after that.
apiResume(a, w, g) ==
    IF g.pc = "returned"
    THEN IF a.pc = "pre"
         THEN LET w1 == WrStart(a.retries, DEFAULT_BASE_DELAY)
                  a1 == [a EXCEPT !.apiEndpoint = g.url]
              IN [a |-> IF w1.pc = "fn" THEN issueRpc(a1, 0)
                                        ELSE [a1 EXCEPT !.pc = "done"],
                  w |-> w1]
         ELSE [a |-> issueRpc([a EXCEPT !.apiEndpoint = g.url], w.attempt), w |-> w]
    ELSE IF g.pc = "thrown"
    THEN IF a.pc = "pre"
         THEN [a |-> [a EXCEPT !.pc = "done", !.error = g.err], w |-> w]
         ELSE LET w1 == WrFnThrow(w, g.err)
              IN [a |-> apiAfterThrow(a, w1), w |-> w1]
    ELSE [a |-> a, w |-> w]

\* an activation that returned or threw to the logical call is over
gnAfter(p, g) ==
    IF p = "api" /\ g.pc \in {"returned", "thrown"} THEN GnIdle ELSE g

\* the variables the endpoint actions leave alone
restOfEndpoint == <<scan, remote, cfg, calls, ops, remoteCalls, inflight, price, rep, runs, lookup>>

\* let apiEndpoint = await getHealthy...Node()
ApiCall(r) ==
    /\ api.pc = "idle"
    /\ LET e == gnEnter(api.type, GnIdle, cache, r)
       IN /\ e.valid
          /\ gn' = [gn EXCEPT !["api"] = e.g]
          /\ cache' = e.c
    /\ api' = [api EXCEPT !.pc = "pre"]
    /\ UNCHANGED <<wr, now, bg, restOfEndpoint>>

\* await refreshNodes(type) returns to getNodeEndpoint, which selects and probes
GnRefreshDone(p, resp, r) ==
    /\ gn[p].pc = "refreshing"
    /\ validRandom(refreshedNodes(api.type, resp), r)
    /\ LET e == gnRefreshed(api.type, gn[p], cache, resp, r)
           k == apiResume(api, wr, e.g)
       IN /\ e.valid
          /\ gn' = [gn EXCEPT ![p] = gnAfter(p, e.g)]
          /\ cache' = e.c
          /\ IF p = "api" THEN api' = k.a /\ wr' = k.w ELSE UNCHANGED <<api, wr>>
    /\ UNCHANGED <<now, bg, restOfEndpoint>>

\* await fetchFn(url, {method: 'HEAD'}) resolved: return url
GnProbeOk(p) ==
    /\ gn[p].pc = "probing"
    /\ LET g == [gn[p] EXCEPT !.pc = "returned"]
           k == apiResume(api, wr, g)
       IN /\ gn' = [gn EXCEPT ![p] = gnAfter(p, g)]
          /\ IF p = "api" THEN api' = k.a /\ wr' = k.w ELSE UNCHANGED <<api, wr>>
    /\ UNCHANGED <<now, cache, bg, restOfEndpoint>>

\* the probe rejected: give up on the third, else evict url and back off
GnProbeFail(p) ==
    /\ gn[p].pc = "probing"
    /\ LET e == gnProbeFailed(api.type, gn[p], cache)
           k == apiResume(api, wr, e.g)
       IN /\ gn' = [gn EXCEPT ![p] = gnAfter(p, e.g)]
          /\ cache' = e.c
          /\ IF p = "api" THEN api' = k.a /\ wr' = k.w ELSE UNCHANGED <<api, wr>>
    /\ UNCHANGED <<now, bg, restOfEndpoint>>

\* the backoff sleep of getNodeEndpoint is over: the recursive call
GnBackoffOver(p, r) ==
    /\ gn[p].pc = "backoff"
    /\ LET e == gnRetry(api.type, gn[p], cache, r)
       IN /\ e.valid
          /\ gn' = [gn EXCEPT ![p] = e.g]
          /\ cache' = e.c
    /\ UNCHANGED <<wr, now, bg, api, restOfEndpoint>>

\* hive: rpcFn(...args) resolved
HiveRpcReturn ==
    /\ api.pc = "rpc" /\ api.type = "hive"
    /\ wr' = WrFnReturn(wr, "response")
    /\ api' = [api EXCEPT !.pc = "done"]
    /\ UNCHANGED <<now, cache, gn, bg, restOfEndpoint>>

\* hive: rpcFn(...args) rejected
HiveRpcThrow ==
    /\ api.pc = "rpc" /\ api.type = "hive"
    /\ LET w == WrFnThrow(wr, "rpc error")
       IN wr' = w /\ api' = apiAfterThrow(api, w)
    /\ UNCHANGED <<now, cache, gn, bg, restOfEndpoint>>

\* he, heh: fetchRetry(fetchFn, url, ...) is over. It fetches the same url up to
\* `retries` times and touches no shared state: it resolves with a response
\* (res.ok or not) or rejects with the last transport error.
FetchRetryOutcomes == {"response", "bad status", "fetch error"}
FetchRetryDone(outcome) ==
    /\ api.pc = "rpc" /\ api.type # "hive"
    /\ IF outcome = "response"
       THEN wr' = WrFnReturn(wr, "response") /\ api' = [api EXCEPT !.pc = "done"]
       ELSE LET w == WrFnThrow(wr, outcome)
            IN wr' = w /\ api' = apiAfterThrow(api, w)
    /\ UNCHANGED <<now, cache, gn, bg, restOfEndpoint>>

\* withRetries' sleep is over: fn(attempt) with attempt > 0 asks for a new endpoint
ApiRetryWake(r) ==
    /\ api.pc = "wait"
    /\ wr' = WrWake(wr)
    /\ LET e == gnEnter(api.type, [GnIdle EXCEPT !.prevUrl = api.apiEndpoint], cache, r)
       IN /\ e.valid
          /\ gn' = [gn EXCEPT !["api"] = e.g]
          /\ cache' = e.c
    /\ api' = [api EXCEPT !.pc = "swap"]
    /\ UNCHANGED <<now, bg, restOfEndpoint>>

\* a background refreshNodes(type) completes
BgRefreshDone(resp) ==
    /\ bg.pc = "fetching"
    /\ cache' = refreshNodes(api.type, resp, cache)
    /\ bg' = [bg EXCEPT !.pc = "idle"]
    /\ UNCHANGED <<wr, now, gn, api, restOfEndpoint>>

\* setInterval(() => refreshNodes(type), HEALTH_STALE_AFTER_MS - 500)
PollerFire ==
    /\ bg.pc = "idle"
    /\ now >= bg.nextPoll
    /\ bg' = [bg EXCEPT !.pc = "fetching", !.nextPoll = @ + POLL_PERIOD_MS]
    /\ UNCHANGED <<wr, now, cache, gn, api, restOfEndpoint>>

\* time passes
TimeSteps == {HEALTH_STALE_AFTER_MS + 1}
Advance(d) ==
    /\ bg.advances < MaxAdvances
    /\ now' = now + d
    /\ bg' = [bg EXCEPT !.advances = @ + 1]
    /\ UNCHANGED <<wr, cache, gn, api, restOfEndpoint>>

\* ------------------------------------------------------------------------
\* utils.js: camelFromEnum, on strings as tuples of characters
\* ------------------------------------------------------------------------
Lower == [c \in {"A", "B", "P", "a", "b", "p", "_"} |->
            CASE c = "A" -> "a" [] c = "B" -> "b" [] c = "P" -> "p" [] OTHER -> c]
Upper == [c \in {"A", "B", "P", "a", "b", "p", "_"} |->
            CASE c = "a" -> "A" [] c = "b" -> "B" [] c = "p" -> "P" [] OTHER -> c]
IsUpperCase(c) == c \in {"A", "B", "P"}
IsLetter(c) == c # "_"

toLowerCase(str) == [i \in DOMAIN str |-> Lower[str[i]]]

\* base.replace(/_([a-zA-Z])/g, (_, c) => c.toUpperCase()), from position i on
RECURSIVE replaceUnderscores(_, _)
replaceUnderscores(base, i) ==
    IF i > Len(base) THEN <<>>
    ELSE IF base[i] = "_" /\ i < Len(base) /\ IsLetter(base[i + 1])
         THEN <<Upper[base[i + 1]]>> \o replaceUnderscores(base, i + 2)
         ELSE <<base[i]>> \o replaceUnderscores(base, i + 1)

camelFromEnum(str) ==
    LET base == IF Len(str) > 0 /\ IsUpperCase(str[1]) THEN toLowerCase(str) ELSE str
    IN replaceUnderscores(base, 1)

\* ------------------------------------------------------------------------
\* Javascript objects as ordered maps: a sequence of [k, v], keys in insertion order
\* ------------------------------------------------------------------------
Has(m, k) == \E i \in DOMAIN m : m[i].k = k
IndexOf(m, k) == CHOOSE i \in DOMAIN m : m[i].k = k
Get(m, k, default) == IF Has(m, k) THEN m[IndexOf(m, k)].v ELSE default
Put(m, k, v) ==
    IF Has(m, k) THEN [m EXCEPT ![IndexOf(m, k)].v = v]
    ELSE Append(m, [k |-> k, v |-> v])
Keys(m) == [i \in DOMAIN m |-> m[i].k]
Values(m) == [i \in DOMAIN m |-> m[i].v]
RECURSIVE FromEntries(_)
FromEntries(entries) ==
    IF entries = <<>> THEN <<>>
    ELSE Put(FromEntries(SubSeq(entries, 1, Len(entries) - 1)),
             entries[Len(entries)].k, entries[Len(entries)].v)

\* ------------------------------------------------------------------------
\* the remote ledgers
\* ------------------------------------------------------------------------
\* the categories of the sender mappings
P_A == <<"P", "_", "A">>
P_B == <<"P", "_", "B">>
p_a == <<"p", "_", "a">>

Mappings ==
    {<<[k |-> P_A, v |-> "s1"]>>,
     <<[k |-> P_A, v |-> "s1"], [k |-> P_B, v |-> "s2"]>>,
     <<[k |-> P_A, v |-> "s1"], [k |-> P_B, v |-> "s1"]>>,
     <<[k |-> P_A, v |-> "s1"], [k |-> p_a, v |-> "s2"]>>,
     <<[k |-> P_A, v |-> "s1"], [k |-> p_a, v |-> "s1"]>>,
     <<[k |-> P_A, v |-> "r"]>>}
IgnoredLists == {<<>>, <<"s1">>}

op(name, from, to, amt, sym) ==
    [op |-> name, from |-> from, to |-> to, amt |-> amt, sym |-> sym]

\* what the history of account r may hold, on the native ledger
HiveOps ==
    [in  |-> {op("transfer", "s1", "r", 10, "HIVE"), op("transfer", "s1", "r", 5, "HIVE"),
              op("transfer", "s2", "r", 10, "HIVE"), op("transfer", "x", "r", 5, "HIVE"),
              op("transfer", "s1", "r", 10, "HBD"), op("transfer", "r", "r", 5, "HIVE"),
              op("transfer_to_vesting", "s1", "r", 10, "HIVE"),
              op("transfer", "s1", "x", 5, "HIVE")},
     out |-> {op("transfer", "r", "s1", 3, "HIVE"), op("transfer", "r", "x", 5, "HIVE"),
              op("transfer", "r", "r", 5, "HIVE"), op("transfer", "s1", "r", 10, "HIVE"),
              op("transfer", "r", "x", 5, "HBD"),
              op("transfer_to_vesting", "r", "x", 5, "HIVE")}]
\* and on the token ledger
TokenOps ==
    [in  |-> {op("tokens_transfer", "s1", "r", 10, "DOOM"), op("tokens_stake", "s1", "r", 5, "DOOM"),
              op("tokens_transfer", "s2", "r", 10, "BUDS"), op("tokens_transfer", "x", "r", 5, "DOOM"),
              op("tokens_transfer", "r", "r", 5, "DOOM"), op("market_buy", "s1", "r", 10, "DOOM"),
              op("tokens_transfer", "s1", "x", 5, "DOOM")},
     out |-> {op("tokens_transfer", "r", "s1", 3, "DOOM"), op("tokens_stake", "r", "x", 5, "BUDS"),
              op("tokens_transfer", "r", "x", 5, "DOOM"), op("tokens_stake", "r", "r", 5, "DOOM"),
              op("tokens_transfer", "s1", "r", 10, "DOOM"), op("market_sell", "r", "x", 5, "DOOM")}]
LedgerOps == [hive |-> HiveOps, token |-> TokenOps]

\* The history is chronological; the record at position i has index i - 1 and a
\* timestamp of T(i) seconds, T0 < T1 < ...
SECOND_MS == 1000
T(i) == 100 + i

hiveEntry(hist, idx) ==
    [idx |-> idx, timestamp |-> T(idx + 1) * SECOND_MS, opName |-> hist[idx + 1].op,
     from |-> hist[idx + 1].from, to |-> hist[idx + 1].to,
     amount |-> hist[idx + 1].amt, asset |-> hist[idx + 1].sym]
tokenTx(hist, pos) ==
    [idx |-> pos - 1, timestamp |-> T(pos), operation |-> hist[pos].op,
     from |-> hist[pos].from, to |-> hist[pos].to,
     quantity |-> hist[pos].amt, symbol |-> hist[pos].sym]

\* getAccountHistory(account, start, limit): at most `limit` entries ending at
\* index `start` (the newest when start = -1), in ascending order of index
getAccountHistory(hist, start, limit) ==
    LET hi == IF start = -1 \/ start > Len(hist) - 1 THEN Len(hist) - 1 ELSE start
        lo == IF hi - limit + 1 < 0 THEN 0 ELSE hi - limit + 1
    IN [j \in 1..(hi - lo + 1) |-> hiveEntry(hist, lo + j - 1)]

\* accountHistory?limit&offset: at most `limit` transactions, newest first,
\* after skipping the `offset` newest
getHistory(hist, limit, offset) ==
    LET n == Len(hist) - offset
        m == IF n < 0 THEN 0 ELSE IF n < limit THEN n ELSE limit
    IN [j \in 1..m |-> tokenTx(hist, n - j + 1)]

\* page.reverse()
reverse(page) == [j \in DOMAIN page |-> page[Len(page) - j + 1]]

\* ------------------------------------------------------------------------
\* orchestrator.js: HiveEarningsService and TokenEarningsService
\* ------------------------------------------------------------------------
includes(list, x) == \E i \in DOMAIN list : list[i] = x
\* the last key instead of the first
findLastKey(senders, from) ==
    senders[CHOOSE i \in DOMAIN senders :
                /\ senders[i].v = from
                /\ \A j \in (i + 1)..Len(senders) : senders[j].v # from].k
\* Object.entries(senders).find(([, val]) => val === from)[0]: the first key
findKey(senders, from) ==
    senders[CHOOSE i \in DOMAIN senders :
                /\ senders[i].v = from
                /\ \A j \in 1..(i - 1) : senders[j].v # from].k

ScanIdle ==
    [pc |-> "idle", ledger |-> None, dir |-> None, username |-> None, sinceTs |-> 0,
     limit |-> 0, senders |-> <<>>, ignored |-> <<>>,
     start |-> -1, offset |-> 0, more |-> TRUE,
     breakdown |-> <<>>, totHiveSent |-> 0, totHiveTransactions |-> 0,
     raw |-> <<>>, counts |-> <<>>, totTokensTransactions |-> 0,
     perRecipient |-> <<>>, perRecipientTxCount |-> <<>>, perRecipientSymbolTxCount |-> <<>>,
     examined |-> <<>>, requests |-> 0]

\* the sums kept from one call to the next instead of starting from zero
analyzeKeepingSums(ledger, dir, username, sinceTs, c) ==
    [scan EXCEPT !.pc = "page", !.start = -1, !.offset = 0, !.more = TRUE,
                 !.limit = IF ledger = "hive" THEN c.hiveHistoryLimit ELSE c.heHistoryLimit,
                 !.senders = IF dir = "out" THEN <<>>
                             ELSE IF ledger = "hive" THEN c.hiveSenders ELSE c.tokenSenders,
                 !.ignored = IF dir = "out" THEN c.ignoredReceivers ELSE <<>>,
                 !.examined = <<>>, !.requests = 1]
\* the code of analyzeInbound / analyzeOutbound before the first request
analyze(ledger, dir, username, sinceTs, c) ==
    [ScanIdle EXCEPT
        !.pc = "page", !.ledger = ledger, !.dir = dir, !.username = username,
        !.sinceTs = sinceTs,
        !.limit = IF ledger = "hive" THEN c.hiveHistoryLimit ELSE c.heHistoryLimit,
        !.senders = IF dir = "out" THEN <<>>
                    ELSE IF ledger = "hive" THEN c.hiveSenders ELSE c.tokenSenders,
        !.ignored = IF dir = "out" THEN c.ignoredReceivers ELSE <<>>,
        !.breakdown = IF ledger = "hive" /\ dir = "in"
                      THEN FromEntries([i \in DOMAIN c.hiveSenders |->
                               [k |-> camelFromEnum(c.hiveSenders[i].k),
                                v |-> [tot |-> 0, transactions |-> 0]]])
                      ELSE <<>>,
        !.requests = 1]

hiveInbound(sc, e) ==
    /\ e.to = sc.username
    /\ includes(Values(sc.senders), e.from)
    /\ e.opName = "transfer"
    /\ e.asset = "HIVE"
hiveOutbound(sc, e) ==
    /\ e.from = sc.username
    /\ e.opName = "transfer"
    /\ e.asset = "HIVE"
isTransferOperation(operation) ==
    operation \in {"tokens_transfer", "transfer", "tokens_stake", "stake"}
tokenInbound(sc, tx) ==
    /\ isTransferOperation(tx.operation)
    /\ tx.to = sc.username
    /\ includes(Values(sc.senders), tx.from)
tokenOutbound(sc, tx) ==
    /\ isTransferOperation(tx.operation)
    /\ tx.from = sc.username
\* const shouldIgnore = from === to || ignored.includes(to)
shouldIgnoreSelfOnly(sc, e) == e.from = e.to
shouldIgnore(sc, e) == e.from = e.to \/ includes(sc.ignored, e.to)

\* the body of the for-of loop after the cutoff test, one per scan
hiveInboundEntry(sc, e) ==
    IF hiveInbound(sc, e)
    THEN LET category == camelFromEnum(findKey(sc.senders, e.from))
             old == Get(sc.breakdown, category, [tot |-> 0, transactions |-> 0])
         IN [sc EXCEPT !.totHiveSent = @ + e.amount,
                       !.breakdown = Put(@, category,
                            [tot |-> old.tot + e.amount,
                             transactions |-> old.transactions + 1])]
    ELSE sc
hiveOutboundEntry(sc, e) ==
    IF hiveOutbound(sc, e) /\ ~shouldIgnore(sc, e)
    THEN [sc EXCEPT !.perRecipient = Put(@, e.to, Get(@, e.to, 0) + e.amount),
                    !.perRecipientTxCount = Put(@, e.to, Get(@, e.to, 0) + 1)]
    ELSE sc
tokenInboundEntry(sc, tx) ==
    IF tokenInbound(sc, tx)
    THEN LET category == camelFromEnum(findKey(sc.senders, tx.from))
             tks == Get(sc.raw, category, <<>>)
             cnt == Get(sc.counts, category, <<>>)
         IN [sc EXCEPT !.raw = Put(@, category,
                                   Put(tks, tx.symbol, Get(tks, tx.symbol, 0) + tx.quantity)),
                       !.counts = Put(@, category,
                                   Put(cnt, tx.symbol, Get(cnt, tx.symbol, 0) + 1)),
                       !.totTokensTransactions = @ + 1]
    ELSE sc
tokenOutboundEntry(sc, tx) ==
    IF tokenOutbound(sc, tx) /\ ~shouldIgnore(sc, tx)
    THEN LET tks == Get(sc.perRecipient, tx.to, <<>>)
             cnt == Get(sc.perRecipientSymbolTxCount, tx.to, <<>>)
         IN [sc EXCEPT !.perRecipient = Put(@, tx.to,
                                   Put(tks, tx.symbol, Get(tks, tx.symbol, 0) + tx.quantity)),
                       !.perRecipientTxCount = Put(@, tx.to, Get(@, tx.to, 0) + 1),
                       !.perRecipientSymbolTxCount = Put(@, tx.to,
                                   Put(cnt, tx.symbol, Get(cnt, tx.symbol, 0) + 1))]
    ELSE sc
entryStep(sc, e) ==
    CASE sc.ledger = "hive" /\ sc.dir = "in" -> hiveInboundEntry(sc, e)
      [] sc.ledger = "hive" /\ sc.dir = "out" -> hiveOutboundEntry(sc, e)
      [] sc.ledger = "token" /\ sc.dir = "in" -> tokenInboundEntry(sc, e)
      [] OTHER -> tokenOutboundEntry(sc, e)

\* new Date(entry.timestamp).getTime() and new Date(tx.timestamp * 1000).getTime()
tsOf(sc, e) == IF sc.ledger = "hive" THEN e.timestamp ELSE e.timestamp * SECOND_MS

\* for (const entry of page) { if (ts < sinceTs) { more = false; break; } ... }
RECURSIVE forOf(_, _, _)
forOf(sc, page, j) ==
    IF j > Len(page) THEN sc
    ELSE IF tsOf(sc, page[j]) < sc.sinceTs THEN [sc EXCEPT !.more = FALSE]
    ELSE forOf([entryStep(sc, page[j]) EXCEPT !.examined = Append(@, page[j].idx)],
               page, j + 1)

\* start = page[page.length - 1][0] - 1, on the page as the loop left it
nextStartUnreversed(page) == page[1].idx - 1
nextStart(page) == page[Len(page)].idx - 1
\* the offset left where it is
nextOffsetStuck(offset, limit) == offset
\* offset += heHistoryLimit
nextOffset(offset, limit) == offset + limit

RECURSIVE sumTransactions(_)
sumTransactions(breakdown) ==
    IF breakdown = <<>> THEN 0
    ELSE breakdown[1].v.transactions + sumTransactions(Tail(breakdown))

\* the code after the while loop
afterLoop(sc) ==
    CASE sc.ledger = "hive" /\ sc.dir = "in" ->
            [sc EXCEPT !.pc = "done", !.totHiveTransactions = sumTransactions(sc.breakdown)]
      [] sc.ledger = "token" /\ sc.dir = "in" -> [sc EXCEPT !.pc = "pricing"]
      [] OTHER -> [sc EXCEPT !.pc = "done"]

\* a page arrives; without the test of start < 0
hivePageNoStop(sc, raw) ==
    IF Len(raw) = 0 THEN afterLoop(sc)
    ELSE LET page == reverse(raw)
             sc1 == forOf(sc, page, 1)
         IN [sc1 EXCEPT !.start = nextStart(page), !.pc = "sleep"]
\* a page arrives
hivePage(sc, raw) ==
    IF Len(raw) = 0 THEN afterLoop(sc)
    ELSE LET page == reverse(raw)
             sc1 == forOf(sc, page, 1)
             sc2 == [sc1 EXCEPT !.start = nextStart(page)]
         IN IF sc2.start < 0 THEN afterLoop(sc2) ELSE [sc2 EXCEPT !.pc = "sleep"]
tokenPage(sc, page) ==
    IF Len(page) = 0 THEN afterLoop(sc)
    ELSE [forOf(sc, page, 1) EXCEPT !.offset = nextOffset(sc.offset, sc.limit),
                                    !.pc = "sleep"]
\* await sleep(apiCallsDelay) is over: the test of while (more)
afterSleepAlways(sc) == [sc EXCEPT !.pc = "page", !.requests = @ + 1]
afterSleep(sc) ==
    IF sc.more THEN [sc EXCEPT !.pc = "page", !.requests = @ + 1] ELSE afterLoop(sc)

\* ------------------------------------------------------------------------
\* the shared configuration and the idle remote
\* ------------------------------------------------------------------------
RemoteIdle == [ledger |-> None, hist |-> <<>>]
\* no scan completed yet; the endpoint the request under way is sent to, and
\* whether a request of the current scan had to be retried
RunsIdle == [first |-> <<>>, endpoint |-> None, retried |-> FALSE, firstRetried |-> FALSE]
DEFAULT_TRACKING_HOURS == 24

\* ------------------------------------------------------------------------
\* TokenEarningsService.getTokenPriceUsd: withRetries around
\* HiveEngineApi.getTokenPriceUsd, whose hiveEngineApiCall runs fetchRetry
\* inside a withRetries of its own
\* ------------------------------------------------------------------------
\* outer and inner are the two activations of withRetries, fetchAttempt the
\* loop index of fetchRetry, requests the POST requests sent so far
LookupIdle ==
    [pc |-> "idle", outer |-> WrIdle, inner |-> WrIdle, fetchAttempt |-> 0,
     requests |-> 0, result |-> None]

\* the function given to the outer withRetries throws e
outerThrows(l, e) ==
    LET w == WrFnThrow(l.outer, e)
    IN IF w.pc = "thrown"
       THEN [l EXCEPT !.outer = w, !.pc = "thrown", !.result = w.result]
       ELSE [l EXCEPT !.outer = w, !.pc = "outerSleep"]
\* the function given to the inner withRetries throws e; when the inner
\* withRetries gives up, hiveEngineApiCall rejects with its last error
innerThrows(l, e) ==
    LET w == WrFnThrow(l.inner, e)
    IN IF w.pc = "thrown"
       THEN outerThrows([l EXCEPT !.inner = w], w.result)
       ELSE [l EXCEPT !.inner = w, !.pc = "innerSleep"]
\* fetchRetry: await fetchFn(url, { ...options, signal })
fetchIssued(l) == [l EXCEPT !.pc = "fetch", !.requests = @ + 1]
\* fetchRetry(fetchFn, url, {...}, retries)
fetchRetry(l) == fetchIssued([l EXCEPT !.fetchAttempt = 0])
\* catch (err) { if (attempt === retries - 1) throw err; await new Promise(...) }
fetchRejected(l, retries) ==
    IF l.fetchAttempt = retries - 1 THEN innerThrows(l, "fetch error")
    ELSE [l EXCEPT !.pc = "fetchSleep"]
fetchWake(l) == fetchIssued([l EXCEPT !.fetchAttempt = @ + 1])
\* if (!res.ok) throw new Error(...); return res.json()
fetchResolved(l, ok) ==
    IF ok
    THEN [l EXCEPT !.pc = "returned", !.result = "price",
                   !.inner = WrFnReturn(@, "response"), !.outer = WrFnReturn(@, "price")]
    ELSE innerThrows(l, "bad status")
\* hiveEngineApiCall(body): let rpcEndpoint = await getHealthyHeNode()
hiveEngineApiCall(l) == [l EXCEPT !.pc = "node", !.inner = WrIdle]
\* getNodeEndpoint returned: withRetries is entered, or its fn(attempt > 0) goes on
nodeSelected(l, retries) ==
    IF l.inner.pc = "idle"
    THEN fetchRetry([l EXCEPT !.inner = WrStart(retries, DEFAULT_BASE_DELAY)])
    ELSE fetchRetry(l)
\* getNodeEndpoint threw
nodeFailed(l, e) == IF l.inner.pc = "idle" THEN outerThrows(l, e) ELSE innerThrows(l, e)
\* the sleep of the inner withRetries is over: fn(attempt) asks for another endpoint
innerWake(l) == [l EXCEPT !.inner = WrWake(@), !.pc = "node"]
\* the sleep of the outer withRetries is over: fn calls hiveEngineApiCall again
outerWake(l) == hiveEngineApiCall([l EXCEPT !.outer = WrWake(@)])
\* getTokenPriceUsd(params)
getTokenPriceUsd(l, retries) ==
    hiveEngineApiCall([l EXCEPT !.outer = WrStart(retries, DEFAULT_BASE_DELAY)])
\* ------------------------------------------------------------------------
\* apis.js: HivePriceProvider
\* ------------------------------------------------------------------------
\* an optional number: <<>> when the argument is absent (null or undefined)
truthy(x) == x # <<>> /\ x[1] # 0

DEFAULT_PRICE_CACHING_MINS == 10
MINUTE_MS == 60000
PriceCallers == 1..2

\* the price the remote source may answer: a number, zero, or no hive.usd
PriceAnswers == {<<5>>, <<7>>, <<0>>, <<>>}

\* one activation of getHiveUsd: w is its withRetries, now the Date.now() of
\* the attempt that is fetching, requests the remote fetches it has issued
PriceActIdle ==
    [pc |-> "idle", w |-> WrIdle, now |-> 0, result |-> <<>>, error |-> None,
     requests |-> 0, outcome |-> None, calls |-> 0]

\* #memo = null, #cacheMs = priceCacheMins * 60000; fetched is the latest
\* fetch that brought a price: when it was issued and what it brought
PriceIdle ==
    [memo |-> <<>>, cacheMs |-> DEFAULT_PRICE_CACHING_MINS * MINUTE_MS,
     acts |-> [a \in PriceCallers |-> PriceActIdle], fetched |-> <<>>, advances |-> 0]

\* this.#memo && ((now - this.#memo.ts) < this.#cacheMs)
memoFreshAtBoundary(p, t) == p.memo # <<>> /\ (t - p.memo[1].ts) <= p.cacheMs
memoFresh(p, t) == p.memo # <<>> /\ (t - p.memo[1].ts) < p.cacheMs

\* the function given to withRetries, up to its await: t is Date.now()
priceAttempt(p, a, t) ==
    LET act == p.acts[a]
    IN IF memoFresh(p, t)
       THEN [p EXCEPT !.acts[a] =
                [act EXCEPT !.pc = "returned",
                            !.w = WrFnReturn(act.w, p.memo[1].val),
                            !.result = <<p.memo[1].val>>]]
       ELSE [p EXCEPT !.acts[a] =
                [act EXCEPT !.pc = "fetching", !.now = t, !.requests = @ + 1]]

\* the loop head of withRetries: the function is invoked or lastErr is thrown
priceEnter(p, a, t) ==
    LET act == p.acts[a]
    IN IF act.w.pc = "fn" THEN priceAttempt(p, a, t)
       ELSE [p EXCEPT !.acts[a] = [act EXCEPT !.pc = "threw", !.error = act.w.result]]

\* getHiveUsd = async () => withRetries(async () => {...})
getHiveUsd(p, a, t) ==
    priceEnter([p EXCEPT !.acts[a] =
                   [PriceActIdle EXCEPT !.w = WrStart(DEFAULT_RETRIES, DEFAULT_BASE_DELAY),
                                        !.calls = p.acts[a].calls + 1]], a, t)

\* val ?? 0
orZero(val) == IF val = <<>> THEN 0 ELSE val[1]

\* const val = data?.hive?.usd; if (val) this.#memo = {ts: now, val}; return val ?? 0
memoIfUsable(p, act, val) ==
    IF truthy(val) THEN [p EXCEPT !.memo = <<[ts |-> act.now, val |-> val[1]]>>] ELSE p
priceFetched(p, a, val) ==
    LET act == p.acts[a]
    IN [memoIfUsable(p, act, val) EXCEPT !.acts[a] =
           [act EXCEPT !.pc = "returned", !.w = WrFnReturn(act.w, orZero(val)),
                       !.result = <<orZero(val)>>,
                       !.outcome = IF truthy(val) THEN "price" ELSE "no price"]]

\* fetchRetry rejected (or r.json() threw): the catch of withRetries
priceRejected(p, a, e) ==
    LET act == p.acts[a]
        w1 == WrFnThrow(act.w, e)
    IN IF w1.pc = "sleep"
       THEN [p EXCEPT !.acts[a] = [act EXCEPT !.pc = "sleeping", !.w = w1, !.outcome = e]]
       ELSE [p EXCEPT !.acts[a] = [act EXCEPT !.pc = "threw", !.w = w1, !.outcome = e,
                                              !.error = w1.result]]

\* the sleep of withRetries is over: the next attempt
priceWake(p, a, t) ==
    priceEnter([p EXCEPT !.acts[a].w = WrWake(p.acts[a].w)], a, t)

\* the aggregation of one report: the maps the scans returned, the loop over
\* the (holder, symbol, amount) triples of the token map, the Map of priceFor
\* and the lookups made so far
RepIdle ==
    [pc |-> "idle", kind |-> None, hiveMap |-> <<>>, bags |-> <<>>, triples |-> <<>>,
     hiveCountMap |-> <<>>, tokenCountMap |-> <<>>, tokenSymbolCountMap |-> <<>>,
     pass |-> 1, idx |-> 1, hiveUsd |-> 0, cache |-> <<>>,
     lookups |-> <<>>, nativeLookups |-> 0,
     recipients |-> <<>>, totUsd |-> 0, totUsdSentInHive |-> 0, totUsdSentInTokens |-> 0,
     listed |-> <<>>, entry |-> None, error |-> None]
CfgIdle ==
    [hours |-> DEFAULT_TRACKING_HOURS, hiveSenders |-> <<>>, tokenSenders |-> <<>>,
     ignoredReceivers |-> <<>>, hiveHistoryLimit |-> MaxLimit, heHistoryLimit |-> MaxLimit]
\* ------------------------------------------------------------------------
\* orchestrator.js: EarningsAnalyzer
\* ------------------------------------------------------------------------
CallIds == 1..MaxCalls
HOUR_MS == 3600000
HOURS_PER_DAY == 24

\* what the callers pass
TimeArgs == {<< <<>>, <<>> >>, << <<2>>, <<>> >>, << <<>>, <<3>> >>,
             << <<2>>, <<3>> >>, << <<0>>, <<3>> >>}
SenderArgs ==
    {<< <<>>, <<>> >>,
     << <<[k |-> P_A, v |-> "s1"]>>, <<>> >>,
     << <<[k |-> P_A, v |-> "s1"]>>, <<[k |-> P_B, v |-> "s2"]>> >>}
ReceiverArgs == {<<>>, <<"r1", "r2">>, <<"r1", "r1">>}
OutSenderArgs == {<<>>, <<"s1", "s2">>}
IgnoredArgs == {<<>>, <<"x">>}
Usds == {0, 5}
Rejections == {"request failed"}

ArgsNone ==
    [accounts |-> <<>>, hiveSenders |-> <<>>, tokenSenders |-> <<>>,
     ignoredReceivers |-> <<>>, hours |-> <<>>, days |-> <<>>]
CallIdle ==
    [status |-> "idle", kind |-> None, args |-> ArgsNone, error |-> None,
     origHours |-> 0, origH |-> <<>>, origT |-> <<>>, since |-> 0, i |-> 0, out |-> <<>>,
     tickers |-> 0,
     before |-> CfgIdle, used |-> <<>>, log |-> <<>>, issued |-> 0, overlapped |-> FALSE]
CallsIdle == [c \in CallIds |-> CallIdle]
OpsIdle == [c \in CallIds |-> None]

\* #sinceTs = () => Date.now() - this.#cfg.hours * 3600000
sinceTs(c) == now - c.hours * HOUR_MS

\* if (hours != null) cfg.hours = hours; else if (days != null) cfg.hours = days * 24
overrideDaysFirst(c, hours, days) ==
    IF days # <<>> THEN [c EXCEPT !.hours = days[1] * HOURS_PER_DAY]
    ELSE IF hours # <<>> THEN [c EXCEPT !.hours = hours[1]]
    ELSE c
overrideHours(c, hours, days) ==
    IF hours # <<>> THEN [c EXCEPT !.hours = hours[1]]
    ELSE IF days # <<>> THEN [c EXCEPT !.hours = days[1] * HOURS_PER_DAY]
    ELSE c

\* the validation of inbounds and of outbounds
inboundsShapeAny(args) == TRUE
inboundsShapeOk(args) ==
    ~(Len(args.accounts) = 0 \/ Len(args.hiveSenders) + Len(args.tokenSenders) = 0)
outboundsShapeOk(args) == ~(Len(args.accounts) = 0)
hoursDaysConflict(args) == truthy(args.days) /\ truthy(args.hours)

\* out.recipients = { ...out.recipients, [acc]: entry }
recordEntryTwice(out, acc, entry) == Append(out, [k |-> acc, v |-> entry])
recordEntry(out, acc, entry) == Put(out, acc, entry)

\* a report entry: its native total and its token total, in USD
entryOf(hiveTotUsd, tokensTotUsd) ==
    [kind |-> "report", hive |-> [totUsd |-> hiveTotUsd],
     tokens |-> [totUsd |-> tokensTotUsd], error |-> None]
report(usd) == entryOf(usd, 0)
\* [acc]: { error: err.message } and { recipients: {}, message }
errorEntry(message) == [kind |-> "error", error |-> message]
messageEntry == [kind |-> "message", error |-> None]

\* (aa, bb) => (bb.hive.totUsd + bb.tokens.totUsd) - (aa.hive.totUsd + aa.tokens.totUsd)
\* in a stable sort: aa stays before a later bb unless bb is worth more
combinedUsd(v) == v.hive.totUsd + v.tokens.totUsd
staysBeforeStrictly(aa, bb) == combinedUsd(aa) > combinedUsd(bb)
staysBefore(aa, bb) == combinedUsd(aa) >= combinedUsd(bb)
RECURSIVE insertByUsd(_, _)
insertByUsd(sorted, e) ==
    IF sorted = <<>> THEN <<e>>
    ELSE IF staysBefore(sorted[Len(sorted)].v, e.v) THEN Append(sorted, e)
    ELSE Append(insertByUsd(SubSeq(sorted, 1, Len(sorted) - 1), e), sorted[Len(sorted)])
RECURSIVE sortByUsd(_)
sortByUsd(entries) ==
    IF entries = <<>> THEN <<>>
    ELSE insertByUsd(sortByUsd(SubSeq(entries, 1, Len(entries) - 1)), entries[Len(entries)])
success(entries) == SelectSeq(entries, LAMBDA e : e.v.kind = "report")
errors(entries) == SelectSeq(entries, LAMBDA e : e.v.kind # "report")
partitionErrorsFirst(entries) == FromEntries(errors(entries) \o sortByUsd(success(entries)))
partitionAndSort(entries) == FromEntries(sortByUsd(success(entries)) \o errors(entries))

\* what a scan started now reads from the shared configuration
usedBy(acc, since, c) ==
    [acc |-> acc, since |-> since, hiveSenders |-> c.hiveSenders,
     tokenSenders |-> c.tokenSenders, ignoredReceivers |-> c.ignoredReceivers]

\* analyzeAccountInbounds up to its Promise.all: both scans and the price
\* request are started, each issuing its first remote request
analyzeAccountInbounds(call, c) ==
    [call |-> [call EXCEPT !.used = Append(@, usedBy(call.args.accounts[call.i], sinceTs(c), c)),
                           !.tickers = @ + 1,
                           !.issued = @ + 3],
     cfg |-> c, op |-> "scans"]

\* the code of inbounds after the loop
inboundsRestoreHoursOnly(call, c) == [c EXCEPT !.hours = call.origHours]
inboundsRestore(call, c) ==
    [c EXCEPT !.hiveSenders = call.origH, !.tokenSenders = call.origT,
              !.hours = call.origHours]
inboundsEnd(call, c) ==
    IF call.out = <<>>
    THEN \* Object.entries(undefined)
         [call |-> [call EXCEPT !.status = "threw", !.error = "TypeError"],
          cfg |-> c, op |-> None]
    ELSE [call |-> [call EXCEPT !.status = "returned", !.out = partitionAndSort(@)],
          cfg |-> inboundsRestore(call, c), op |-> None]
\* for (const acc of receivers)
inboundsLoop(call, c) ==
    IF call.i <= Len(call.args.accounts) THEN analyzeAccountInbounds(call, c)
    ELSE inboundsEnd(call, c)

inbounds(args, c) ==
    LET call == [CallIdle EXCEPT !.kind = "inbounds", !.args = args, !.before = c]
    IN IF ~inboundsShapeOk(args)
       THEN [call |-> [call EXCEPT !.status = "threw", !.error = "Please provide both"],
             cfg |-> c, op |-> None]
       ELSE IF hoursDaysConflict(args)
       THEN [call |-> [call EXCEPT !.status = "threw", !.error = "either hours or days"],
             cfg |-> c, op |-> None]
       ELSE inboundsLoop(
               [call EXCEPT !.status = "running", !.origHours = c.hours,
                            !.origH = c.hiveSenders, !.origT = c.tokenSenders, !.i = 1],
               [overrideHours(c, args.hours, args.days) EXCEPT
                    !.hiveSenders = args.hiveSenders, !.tokenSenders = args.tokenSenders])

\* one iteration of the loop of outbounds up to its Promise.all
startOutboundScans(call, c) ==
    [call |-> [call EXCEPT !.used = Append(@, usedBy(call.args.accounts[call.i], call.since, c)),
                           !.tickers = @ + 1,
                           !.issued = @ + 2],
     cfg |-> c, op |-> "scans"]
outboundsEnd(call, c) ==
    [call |-> [call EXCEPT !.status = "returned"],
     cfg |-> [c EXCEPT !.hours = call.origHours], op |-> None]
outboundsLoop(call, c) ==
    IF call.i <= Len(call.args.accounts) THEN startOutboundScans(call, c)
    ELSE outboundsEnd(call, c)

outbounds(args, c) ==
    LET call == [CallIdle EXCEPT !.kind = "outbounds", !.args = args, !.before = c]
    IN IF ~outboundsShapeOk(args)
       THEN [call |-> [call EXCEPT !.status = "threw", !.error = "senders argument missing"],
             cfg |-> c, op |-> None]
       ELSE IF hoursDaysConflict(args)
       THEN [call |-> [call EXCEPT !.status = "threw", !.error = "either hours or days"],
             cfg |-> c, op |-> None]
       ELSE LET c1 == [overrideHours(c, args.hours, args.days) EXCEPT
                           !.ignoredReceivers = args.ignoredReceivers]
            IN outboundsLoop(
                  [call EXCEPT !.status = "running", !.origHours = c.hours,
                               !.since = sinceTs(c1), !.i = 1],
                  c1)

\* the entry of the current account is recorded and the loop goes on
nextAccount(call, c, entry) ==
    LET acc == call.args.accounts[call.i]
        call1 == [call EXCEPT !.out = recordEntry(@, acc, entry),
                              !.log = Append(@, [k |-> acc, v |-> entry]),
                              !.i = @ + 1]
    IN IF call.kind = "inbounds" THEN inboundsLoop(call1, c) ELSE outboundsLoop(call1, c)

\* ------------------------------------------------------------------------
\* orchestrator.js: the report of one outbound sender (outbounds 190-286)
\* and the pricing of one inbound token breakdown (analyzeInbound 497-529).
\* Amounts are whole numbers of coins; prices and USD values are counted in
\* units of 10^-9 USD, one decimal more than the finest toFixed of the code.
\* The transaction counts are copied from the scans and take no part.
\* ------------------------------------------------------------------------
\* +x.toFixed(digits), for x >= 0: the nearest multiple of 10^-digits USD
toFixed(x, digits) ==
    LET unit == 10 ^ (9 - digits)
    IN ((x + unit \div 2) \div unit) * unit
\* one hundredth of a USD
CENT == 10 ^ 7

\* Object.entries(map) with Object.entries(bag) inside: the triples in order
RECURSIVE flatten(_)
flatten(bags) ==
    IF bags = <<>> THEN <<>>
    ELSE [i \in DOMAIN bags[1].v |->
             [user |-> bags[1].k, sym |-> bags[1].v[i].k, amt |-> bags[1].v[i].v]]
         \o flatten(Tail(bags))

\* for (const [user, amt] of Object.entries(hiveMap)) recipients[user] = {...}
\* (213-223); amounts are whole numbers, which toFixed(2) leaves as they are
recipientOf(hive, tokens) ==
    [kind |-> "report", hive |-> hive, tokens |-> tokens, error |-> None]
recipientsOfHive(hiveMap, hiveCountMap, hiveUsd) ==
    [i \in DOMAIN hiveMap |->
        [k |-> hiveMap[i].k,
         v |-> recipientOf([totHive |-> hiveMap[i].v,
                            totUsd |-> toFixed(hiveMap[i].v * hiveUsd, 2),
                            transactions |-> Get(hiveCountMap, hiveMap[i].k, 0)],
                           [breakdown |-> <<>>, totUsd |-> 0, transactions |-> 0])]]

\* if (!recipients[user]) recipients[user] = {hive: zeros, tokens: {...}} (226-240)
recipientOfTokens(tokensTransactions) ==
    recipientOf([totHive |-> 0, totUsd |-> 0, transactions |-> 0],
                [breakdown |-> <<>>, totUsd |-> 0, transactions |-> tokensTransactions])
recipientAlwaysNew(recipients, user, tokensTransactions) ==
    recipientOfTokens(tokensTransactions)
recipientSoFar(recipients, user, tokensTransactions) ==
    Get(recipients, user, recipientOfTokens(tokensTransactions))

RECURSIVE sumOf(_)
sumOf(seq) == IF seq = <<>> THEN 0 ELSE seq[1] + sumOf(Tail(seq))

\* if (cache.has(symbol)) return cache.get(symbol)
cacheHasNever(map, symbol) == FALSE
cacheHas(map, symbol) == Has(map, symbol)

\* the body of a loop over the triples, once the price of the symbol is known
\* inbound (513-521) and the totals of outbounds (270-271) add amt * price
\* as it is; the recipients of outbounds (242-252) add
\* usd = +(amt * usdEach).toFixed(8) and fix the total of a recipient to 8
\* decimals after the last symbol of its bag
usdOfSymbol(amt, usdEach) == toFixed(amt * usdEach, 8)
priced(r, t, usdEach) ==
    IF r.kind = "in"
    THEN [r EXCEPT !.totUsd = @ + t.amt * usdEach, !.idx = @ + 1]
    ELSE IF r.pass = 2
    THEN [r EXCEPT !.totUsdSentInTokens = @ + t.amt * usdEach, !.idx = @ + 1]
    ELSE LET tokensTransactions == Get(r.tokenCountMap, t.user, 0)
             old == recipientSoFar(r.recipients, t.user, tokensTransactions)
             usd == usdOfSymbol(t.amt, usdEach)
             tot == old.tokens.totUsd + usd
             bagOver == r.idx = Len(r.triples) \/ r.triples[r.idx + 1].user # t.user
             symbolEntry ==
                 [amount |-> t.amt, usd |-> usd,
                  transactions |-> Get(Get(r.tokenSymbolCountMap, t.user, <<>>), t.sym, 0)]
         IN [r EXCEPT !.recipients =
                          Put(@, t.user,
                              [old EXCEPT
                                  !.tokens.breakdown = Put(@, t.sym, symbolEntry),
                                  !.tokens.totUsd = IF bagOver THEN toFixed(tot, 8) ELSE tot,
                                  !.tokens.transactions =
                                      IF bagOver THEN tokensTransactions ELSE @]),
                      !.idx = @ + 1]

\* the code after the loops: totUsd: +totUsd.toFixed(8) of analyzeInbound and
\* the stats of outbounds, +totUsdSentIn....toFixed(2)
reportDone(r) ==
    [r EXCEPT !.pc = "done", !.entry = "report",
              !.totUsd = toFixed(@, 8),
              !.totUsdSentInHive = toFixed(@, 2),
              !.totUsdSentInTokens = toFixed(@, 2)]

\* the loops run until priceFor needs a price it has not got yet: the first
\* loop of outbounds fills the recipients, which are then sorted, and the
\* second loop asks priceFor again for the totals
RECURSIVE advance(_)
advance(r) ==
    IF r.idx > Len(r.triples)
    THEN IF r.kind = "out" /\ r.pass = 1
         THEN advance([r EXCEPT !.pass = 2, !.idx = 1,
                                !.recipients = FromEntries(sortByUsd(@)),
                                !.totUsdSentInHive = sumOf(Values(r.hiveMap)) * r.hiveUsd])
         ELSE reportDone(r)
    ELSE LET t == r.triples[r.idx]
         IN IF cacheHas(r.cache, t.sym)
            THEN advance(priced(r, t, Get(r.cache, t.sym, 0)))
            ELSE [r EXCEPT !.pc = "tokenPrice", !.lookups = Append(@, t.sym)]

\* outbounds after its Promise.all: nothing found, or the native price is asked
\* const [{perRecipient: hiveMap, perRecipientTxCount: hiveCountMap},
\*        {perRecipient: tokMap, perRecipientTxCount: tokenCountMap,
\*         perRecipientSymbolTxCount: tokenSymbolCountMap}] = await Promise.all(...)
scansOf(hive, tok) ==
    [RepIdle EXCEPT !.kind = "out",
                    !.hiveMap = hive.perRecipient, !.hiveCountMap = hive.perRecipientTxCount,
                    !.bags = tok.perRecipient, !.tokenCountMap = tok.perRecipientTxCount,
                    !.tokenSymbolCountMap = tok.perRecipientSymbolTxCount,
                    !.triples = flatten(tok.perRecipient)]
outboundReportAlwaysPriced(hive, tok) ==
    [scansOf(hive, tok) EXCEPT !.pc = "hiveUsd", !.nativeLookups = @ + 1]
outboundReport(hive, tok) ==
    LET r == scansOf(hive, tok)
    IN IF Len(r.hiveMap) = 0 /\ Len(r.bags) = 0
       THEN [r EXCEPT !.pc = "done", !.entry = "message"]
       ELSE [r EXCEPT !.pc = "hiveUsd", !.nativeLookups = @ + 1]

\* analyzeInbound of the token service after its scan: the native price is asked
inboundPricing(raw) ==
    [RepIdle EXCEPT !.kind = "in", !.bags = raw, !.triples = flatten(raw),
                    !.pc = "hiveUsd", !.nativeLookups = @ + 1]

\* const hiveUsd = await this.#priceProv.getHiveUsd() is over
hiveUsdArrived(r, hiveUsd) ==
    advance([r EXCEPT !.hiveUsd = hiveUsd,
                      !.recipients = IF r.kind = "out"
                                     THEN recipientsOfHive(r.hiveMap, r.hiveCountMap, hiveUsd)
                                     ELSE <<>>])

\* const { price } = await getTokenPriceUsd({symbol, hiveUsd}); cache.set(symbol, price)
tokenPriceArrived(r, usdEach) ==
    LET t == r.triples[r.idx]
    IN advance(priced([r EXCEPT !.pc = "loop", !.cache = Put(@, t.sym, usdEach)], t, usdEach))

\* a price request rejected: the catch of the loop of outbounds, or the
\* rejection of analyzeInbound
pricingFailed(r, message) == [r EXCEPT !.pc = "done", !.entry = "error", !.error = message]

\* ------------------------------------------------------------------------
\* withRetries alone, around a function that returns or throws
\* ------------------------------------------------------------------------
restOfRetry == <<now, cache, gn, bg, api, scan, remote, cfg, calls, ops, remoteCalls,
                 inflight, price, rep, runs, lookup>>

WithRetriesCall(retries, baseDelay) ==
    /\ wr.pc = "idle"
    /\ wr' = WrStart(retries, baseDelay)
    /\ UNCHANGED restOfRetry

FnReturn(v) ==
    /\ wr.pc = "fn"
    /\ wr' = WrFnReturn(wr, v)
    /\ UNCHANGED restOfRetry

FnThrow(e) ==
    /\ wr.pc = "fn"
    /\ wr' = WrFnThrow(wr, e)
    /\ UNCHANGED restOfRetry

SleepOver ==
    /\ wr.pc = "sleep"
    /\ wr' = WrWake(wr)
    /\ UNCHANGED restOfRetry

InitRetry ==
    /\ wr = WrIdle
    /\ now = StartTime
    /\ cache = CacheEmpty
    /\ gn = [p \in Callers |-> GnIdle]
    /\ bg = BgIdle
    /\ api = ApiIdle
    /\ scan = ScanIdle
    /\ remote = RemoteIdle
    /\ cfg = CfgIdle
    /\ calls = CallsIdle
    /\ ops = OpsIdle
    /\ remoteCalls = 0
    /\ runs = RunsIdle /\ lookup = LookupIdle /\ inflight = {} /\ price = PriceIdle /\ rep = RepIdle

NextRetry ==
    \/ \E retries \in 0..MaxRetries, baseDelay \in BaseDelays :
           WithRetriesCall(retries, baseDelay)
    \/ \E v \in FnValues : FnReturn(v)
    \/ \E e \in FnErrors : FnThrow(e)
    \/ SleepOver

SpecRetry == InitRetry /\ [][NextRetry]_vars

\* ------------------------------------------------------------------------
\* one logical call against the endpoint registry, with the background refresh
\* ------------------------------------------------------------------------
InitEndpoint ==
    /\ wr = WrIdle
    /\ now = StartTime
    /\ cache = CacheEmpty
    /\ gn = [p \in Callers |-> GnIdle]
    /\ bg = [pc |-> "fetching", nextPoll |-> StartTime + POLL_PERIOD_MS, advances |-> 0]
    /\ \E t \in Types, n \in ApiRetries : api = [ApiIdle EXCEPT !.type = t, !.retries = n]
    /\ scan = ScanIdle
    /\ remote = RemoteIdle
    /\ cfg = CfgIdle
    /\ calls = CallsIdle
    /\ ops = OpsIdle
    /\ remoteCalls = 0
    /\ runs = RunsIdle /\ lookup = LookupIdle /\ inflight = {} /\ price = PriceIdle /\ rep = RepIdle

NextEndpoint ==
    \/ \E r \in Randoms : ApiCall(r)
    \/ \E resp \in FeedResponses[api.type], r \in Randoms : GnRefreshDone("api", resp, r)
    \/ GnProbeOk("api")
    \/ GnProbeFail("api")
    \/ \E r \in Randoms : GnBackoffOver("api", r)
    \/ HiveRpcReturn
    \/ HiveRpcThrow
    \/ \E outcome \in FetchRetryOutcomes : FetchRetryDone(outcome)
    \/ \E r \in Randoms : ApiRetryWake(r)
    \/ \E resp \in FeedResponses[api.type] : BgRefreshDone(resp)
    \/ PollerFire
    \/ \E d \in TimeSteps : Advance(d)

SpecEndpoint == InitEndpoint /\ [][NextEndpoint]_vars

\* ------------------------------------------------------------------------
\* withRetries: properties (checked under SpecRetry)
\* ------------------------------------------------------------------------

\* C4: withRetries invokes fn at most retries+1 times, and the sleep that
\* immediately precedes attempt n (n >= 1) lasts 2^(n-1) * baseDelay.
C4_AttemptsAndDelays ==
    /\ wr.invocations <= wr.retries + 1
    /\ (wr.pc = "fn" /\ wr.attempt >= 1) =>
           wr.slept = (2 ^ (wr.attempt - 1)) * wr.baseDelay

\* fn is running its third attempt, after sleeps of baseDelay and 2 * baseDelay
C4_Witness ==
    /\ wr.pc = "fn"
    /\ wr.attempt = 2
    /\ wr.baseDelay = DEFAULT_BASE_DELAY
    /\ wr.slept = 2 * DEFAULT_BASE_DELAY

\* C6: withRetries resolves with the value of the first attempt that succeeds,
\* every attempt before it having failed, and invokes fn no more after that;
\* when every attempt failed it rejects with the error of the last attempt.
C6_ResultOfRetries ==
    /\ [](wr.pc = "returned" =>
            /\ wr.result \in FnValues
            /\ wr.result = wr.outcome
            /\ wr.invocations = wr.failures + 1)
    /\ [](wr.pc = "thrown" =>
            /\ wr.invocations = wr.failures
            /\ wr.invocations = wr.retries
            /\ wr.invocations > 0 => (wr.result \in FnErrors /\ wr.result = wr.outcome))
    /\ [][wr.pc = "returned" => wr'.invocations = wr.invocations]_vars

\* three attempts failed, the last with e2 after an earlier failure
C6_Witness ==
    /\ wr.pc = "thrown"
    /\ wr.failures = 3
    /\ wr.result = "e2"

\* ------------------------------------------------------------------------
\* the logical calls: properties (checked under SpecEndpoint)
\* ------------------------------------------------------------------------

\* C5: within one logical call, the endpoint the request of attempt n (n >= 1)
\* is sent to differs from the endpoint the request of attempt n-1 was sent to.
C5_EndpointRotates ==
    [][(/\ api.pc = "swap"
        /\ api'.pc = "rpc"
        /\ api.issuedAt = wr.attempt - 1) => api'.apiEndpoint # api.apiEndpoint]_vars

\* ------------------------------------------------------------------------
\* one ledger scan of account r, page by page
\* ------------------------------------------------------------------------
restOfScan == <<wr, now, cache, gn, bg, api, remote, cfg, calls, ops, remoteCalls,
                inflight, price, rep, runs, lookup>>

\* analyzeInbound / analyzeOutbound is called: up to the first page request
AnalyzeCall ==
    /\ scan.pc = "called"
    /\ scan' = analyze(scan.ledger, scan.dir, scan.username, scan.sinceTs, cfg)
    /\ UNCHANGED restOfScan

\* the page of the native ledger arrives
AccountHistoryPage ==
    /\ scan.pc = "page" /\ scan.ledger = "hive"
    /\ scan' = hivePage(scan, getAccountHistory(remote.hist, scan.start, scan.limit))
    /\ UNCHANGED restOfScan

\* the page of the token ledger arrives
TokenHistoryPage ==
    /\ scan.pc = "page" /\ scan.ledger = "token"
    /\ scan' = tokenPage(scan, getHistory(remote.hist, scan.limit, scan.offset))
    /\ UNCHANGED restOfScan

\* the request is rejected after its retries: the scan throws
HistoryRejected ==
    /\ scan.pc = "page"
    /\ scan' = [scan EXCEPT !.pc = "failed"]
    /\ UNCHANGED restOfScan

ScanDelayOver ==
    /\ scan.pc = "sleep"
    /\ scan' = afterSleep(scan)
    /\ UNCHANGED restOfScan

\* getHiveUsd and the price of each symbol (token inbound only)
PricesFetched ==
    /\ scan.pc = "pricing"
    /\ scan' = [scan EXCEPT !.pc = "done"]
    /\ UNCHANGED restOfScan

PricesRejected ==
    /\ scan.pc = "pricing"
    /\ scan' = [scan EXCEPT !.pc = "failed"]
    /\ UNCHANGED restOfScan

Cutoffs(hist) == {T(k) * SECOND_MS : k \in 1..(Len(hist) + 1)}

InitScan ==
    /\ wr = WrIdle /\ now = StartTime /\ cache = CacheEmpty /\ gn = [p \in Callers |-> GnIdle]
    /\ bg = BgIdle /\ api = ApiIdle
    /\ calls = CallsIdle /\ ops = OpsIdle /\ remoteCalls = 0
    /\ runs = RunsIdle /\ lookup = LookupIdle /\ inflight = {} /\ price = PriceIdle /\ rep = RepIdle
    /\ \E ledger \in {"hive", "token"}, dir \in {"in", "out"} :
         \E hist \in SeqsUpTo(LedgerOps[ledger][dir], MaxHist), limit \in 1..MaxLimit :
           \E senders \in (IF dir = "in" THEN Mappings ELSE {<<>>}),
              ignored \in (IF dir = "out" THEN IgnoredLists ELSE {<<>>}),
              cutoff \in Cutoffs(hist) :
             /\ remote = [ledger |-> ledger, hist |-> hist]
             /\ cfg = [CfgIdle EXCEPT !.hiveSenders = senders, !.tokenSenders = senders,
                                      !.ignoredReceivers = ignored,
                                      !.hiveHistoryLimit = limit, !.heHistoryLimit = limit]
             /\ scan = [ScanIdle EXCEPT !.pc = "called", !.ledger = ledger, !.dir = dir,
                                        !.username = "r", !.sinceTs = cutoff]

NextScan ==
    \/ AnalyzeCall
    \/ AccountHistoryPage
    \/ TokenHistoryPage
    \/ HistoryRejected
    \/ ScanDelayOver
    \/ PricesFetched
    \/ PricesRejected

SpecScan == InitScan /\ [][NextScan]_vars

\* the records of the window, as the remote holds them
InWindow(hist, cutoff) == {i - 1 : i \in {j \in 1..Len(hist) : T(j) * SECOND_MS >= cutoff}}
ToSet(seq) == {seq[i] : i \in DOMAIN seq}
NoDuplicates(seq) == \A i, j \in DOMAIN seq : i # j => seq[i] # seq[j]
loopOver == scan.pc \in {"done", "pricing"}

\* C1: whatever the page size (>= 1), a scan that ends has examined every record
\* of the window exactly once, by start index on the native ledger and by offset
\* on the token ledger: none skipped, none twice.
C1_EveryRecordOnce ==
    loopOver =>
        /\ NoDuplicates(scan.examined)
        /\ ToSet(scan.examined) = InWindow(remote.hist, scan.sinceTs)

C1_Witness ==
    /\ scan.pc = "done" /\ scan.ledger = "hive"
    /\ scan.limit = 2 /\ scan.requests = 2
    /\ scan.examined = <<2, 1, 0>>

\* native transfers of the window from account S to account R
RECURSIVE transfersFrom(_, _, _, _, _)
transfersFrom(hist, i, cutoff, S, R) ==
    IF i > Len(hist) THEN [tot |-> 0, transactions |-> 0]
    ELSE LET rest == transfersFrom(hist, i + 1, cutoff, S, R)
         IN IF /\ T(i) * SECOND_MS >= cutoff
               /\ hist[i].op = "transfer" /\ hist[i].sym = "HIVE"
               /\ hist[i].from = S /\ hist[i].to = R
            THEN [tot |-> rest.tot + hist[i].amt, transactions |-> rest.transactions + 1]
            ELSE rest
RECURSIVE totalOver(_, _, _, _, _)
totalOver(accounts, hist, cutoff, R, field) ==
    IF accounts = {} THEN 0
    ELSE LET S == CHOOSE a \in accounts : TRUE
         IN transfersFrom(hist, 1, cutoff, S, R)[field]
              + totalOver(accounts \ {S}, hist, cutoff, R, field)
hiveInboundDone == scan.pc = "done" /\ scan.ledger = "hive" /\ scan.dir = "in"
distinctAccounts(senders) ==
    \A i, j \in DOMAIN senders : i # j => senders[i].v # senders[j].v
untrackedCountNothing ==
    /\ scan.totHiveSent =
         totalOver(ToSet(Values(scan.senders)), remote.hist, scan.sinceTs, scan.username, "tot")
    /\ scan.totHiveTransactions =
         totalOver(ToSet(Values(scan.senders)), remote.hist, scan.sinceTs, scan.username,
                   "transactions")

\* C2: in the inbound report of receiver R, for every category key K mapped to
\* sender S (no two keys sharing a sender), the entry of K in the breakdown
\* holds the sum and the count of the native transfers from S to R inside the
\* window, and transfers from untracked senders, to other receivers or outside
\* the window count nowhere.
C2_BreakdownPerKey ==
    (hiveInboundDone /\ distinctAccounts(scan.senders)) =>
        /\ \A i \in DOMAIN scan.senders :
             Get(scan.breakdown, camelFromEnum(scan.senders[i].k), None) =
               transfersFrom(remote.hist, 1, scan.sinceTs, scan.senders[i].v, scan.username)
        /\ untrackedCountNothing

\* ------------------------------------------------------------------------
\* calls of inbounds and outbounds on one analyzer, possibly overlapping
\* ------------------------------------------------------------------------
restOfOrch == <<wr, now, cache, gn, bg, api, scan, remote, price, rep, runs, lookup>>

running(c) == calls[c].status = "running"
\* the new state of call c; a call that is running beside another overlaps it
install(c, r) ==
    LET beside == {d \in CallIds \ {c} : running(d)}
        overlap == r.call.status = "running" /\ beside # {}
    IN /\ calls' = [d \in CallIds |->
                       IF d = c THEN [r.call EXCEPT !.overlapped = @ \/ overlap]
                       ELSE IF overlap /\ d \in beside
                       THEN [calls[d] EXCEPT !.overlapped = TRUE]
                       ELSE calls[d]]
       /\ cfg' = r.cfg
       /\ ops' = [ops EXCEPT ![c] = r.op]
       /\ remoteCalls' = remoteCalls + (r.call.issued - calls[c].issued)
       /\ UNCHANGED restOfOrch
mayStart(c) ==
    calls[c].status = "idle" /\ (IF c = 1 THEN TRUE ELSE calls[c - 1].status # "idle")

InboundsCall(c, receivers, senders, time) ==
    /\ UNCHANGED inflight
    /\ mayStart(c)
    /\ install(c, inbounds([ArgsNone EXCEPT !.accounts = receivers,
                                            !.hiveSenders = senders[1],
                                            !.tokenSenders = senders[2],
                                            !.hours = time[1], !.days = time[2]], cfg))

OutboundsCall(c, senders, ignoredReceivers, time) ==
    /\ UNCHANGED inflight
    /\ mayStart(c)
    /\ install(c, outbounds([ArgsNone EXCEPT !.accounts = senders,
                                             !.ignoredReceivers = ignoredReceivers,
                                             !.hours = time[1], !.days = time[2]], cfg))

\* Promise.all of analyzeAccountInbounds resolves: the ticker is cleared
InboundScansResolve(c, usd) ==
    /\ UNCHANGED inflight
    /\ running(c) /\ calls[c].kind = "inbounds" /\ ops[c] = "scans"
    /\ install(c, nextAccount([calls[c] EXCEPT !.tickers = @ - 1], cfg, report(usd)))

\* one of the three promises rejects: the catch of the loop records the error
InboundScansReject(c, message) ==
    /\ UNCHANGED inflight
    /\ running(c) /\ calls[c].kind = "inbounds" /\ ops[c] = "scans"
    /\ install(c, nextAccount(calls[c], cfg, errorEntry(message)))

\* both outbound scans resolve: nothing found, or the prices are asked for
OutboundScansResolve(c, empty) ==
    /\ UNCHANGED inflight
    /\ running(c) /\ calls[c].kind = "outbounds" /\ ops[c] = "scans"
    /\ LET call == [calls[c] EXCEPT !.tickers = @ - 1]
       IN IF empty THEN install(c, nextAccount(call, cfg, messageEntry))
          ELSE install(c, [call |-> [call EXCEPT !.issued = @ + 1], cfg |-> cfg,
                           op |-> "prices"])

OutboundScansReject(c, message) ==
    /\ UNCHANGED inflight
    /\ running(c) /\ calls[c].kind = "outbounds" /\ ops[c] = "scans"
    /\ install(c, nextAccount(calls[c], cfg, errorEntry(message)))

\* the prices arrive and the report of the sender is built
OutboundPricesResolve(c) ==
    /\ UNCHANGED inflight
    /\ running(c) /\ calls[c].kind = "outbounds" /\ ops[c] = "prices"
    /\ install(c, nextAccount(calls[c], cfg, report(0)))

OutboundPricesReject(c, message) ==
    /\ UNCHANGED inflight
    /\ running(c) /\ calls[c].kind = "outbounds" /\ ops[c] = "prices"
    /\ install(c, nextAccount(calls[c], cfg, errorEntry(message)))

InitOrch ==
    /\ wr = WrIdle /\ now = StartTime /\ cache = CacheEmpty /\ gn = [p \in Callers |-> GnIdle]
    /\ bg = BgIdle /\ api = ApiIdle /\ scan = ScanIdle /\ remote = RemoteIdle
    /\ cfg = CfgIdle
    /\ calls = CallsIdle /\ ops = OpsIdle /\ remoteCalls = 0
    /\ runs = RunsIdle /\ lookup = LookupIdle /\ inflight = {} /\ price = PriceIdle /\ rep = RepIdle

NextOrch ==
    \/ \E c \in CallIds, receivers \in ReceiverArgs, senders \in SenderArgs, time \in TimeArgs :
          InboundsCall(c, receivers, senders, time)
    \/ \E c \in CallIds, senders \in OutSenderArgs, ignoredReceivers \in IgnoredArgs,
          time \in TimeArgs :
          OutboundsCall(c, senders, ignoredReceivers, time)
    \/ \E c \in CallIds, usd \in Usds : InboundScansResolve(c, usd)
    \/ \E c \in CallIds, message \in Rejections : InboundScansReject(c, message)
    \/ \E c \in CallIds, empty \in BOOLEAN : OutboundScansResolve(c, empty)
    \/ \E c \in CallIds, message \in Rejections : OutboundScansReject(c, message)
    \/ \E c \in CallIds : OutboundPricesResolve(c)
    \/ \E c \in CallIds, message \in Rejections : OutboundPricesReject(c, message)

SpecOrch == InitOrch /\ [][NextOrch]_vars

finished(c) == calls[c].status \in {"returned", "threw"}
passesValidation(call) ==
    /\ IF call.kind = "inbounds" THEN inboundsShapeOk(call.args) ELSE outboundsShapeOk(call.args)
    /\ ~hoursDaysConflict(call.args)
\* the last entry logged for an account
lastLogged(log, acc) ==
    log[CHOOSE i \in DOMAIN log :
            log[i].k = acc /\ \A j \in (i + 1)..Len(log) : log[j].k # acc].v

\* C3: in a batch call that passed validation, the exception of one account is
\* recorded as {error: message} under that account, every later account is still
\* processed, and the call returns one entry, a report or an error, for each
\* distinct requested account.
C3_FailureIsolation ==
    \A c \in CallIds :
        (calls[c].status # "idle" /\ passesValidation(calls[c])) =>
            /\ calls[c].status # "threw"
            /\ calls[c].status = "returned" =>
                 /\ Keys(calls[c].log) = calls[c].args.accounts
                 /\ ToSet(Keys(calls[c].out)) = ToSet(calls[c].args.accounts)
                 /\ NoDuplicates(Keys(calls[c].out))
                 /\ \A acc \in ToSet(calls[c].args.accounts) :
                      Get(calls[c].out, acc, None) = lastLogged(calls[c].log, acc)

C3_Witness ==
    \E c \in CallIds :
        /\ calls[c].status = "returned" /\ calls[c].kind = "inbounds"
        /\ calls[c].args.accounts = <<"r1", "r2">>
        /\ calls[c].log = <<[k |-> "r1", v |-> errorEntry("request failed")],
                            [k |-> "r2", v |-> report(5)]>>
        /\ Keys(calls[c].out) = <<"r2", "r1">>

bothSupplied(args) == args.hours # <<>> /\ args.days # <<>>

\* C7: a call of inbounds or outbounds given both hours and days (both non-null),
\* whatever their values, fails with a validation error and performs no remote
\* call.
C7_HoursAndDaysRejected ==
    \A c \in CallIds :
        (calls[c].status # "idle" /\ bothSupplied(calls[c].args)) =>
            calls[c].status = "threw" /\ calls[c].issued = 0

badShape(call) ==
    IF call.kind = "inbounds"
    THEN call.args.accounts = <<>> \/ (call.args.hiveSenders = <<>> /\ call.args.tokenSenders = <<>>)
    ELSE call.args.accounts = <<>>

\* C8: inbounds without a receiver or with both sender mappings empty, and
\* outbounds without a sender, fail with a validation error before any remote
\* call, and leave hours, hiveSenders, tokenSenders and ignoredReceivers of the
\* shared configuration as they were.
C8_ValidationBeforeEffects ==
    [][\A c \in CallIds :
          (calls[c].status = "idle" /\ calls'[c].status # "idle" /\ badShape(calls'[c])) =>
              /\ calls'[c].status = "threw"
              /\ calls'[c].issued = 0 /\ remoteCalls' = remoteCalls
              /\ cfg' = cfg]_vars

C8_Witness ==
    \E c \in CallIds :
        /\ calls[c].status = "threw" /\ calls[c].kind = "inbounds"
        /\ calls[c].args.accounts = <<"r1", "r2">>
        /\ calls[c].args.hiveSenders = <<>> /\ calls[c].args.tokenSenders = <<>>
        /\ calls[c].args.hours = <<2>>
        /\ calls[c].issued = 0 /\ cfg = calls[c].before

\* C9: when a call of inbounds or outbounds that overlapped no other call
\* completes, also when every account of its batch failed, hours, hiveSenders
\* and tokenSenders of the shared configuration are what they were before it.
C9_RestoredAfterCall ==
    [][\A c \in CallIds :
          (~finished(c) /\ calls'[c].status \in {"returned", "threw"}
             /\ ~calls'[c].overlapped) =>
              /\ cfg'.hours = calls'[c].before.hours
              /\ cfg'.hiveSenders = calls'[c].before.hiveSenders
              /\ cfg'.tokenSenders = calls'[c].before.tokenSenders]_vars

C9_Witness ==
    \E c \in CallIds :
        /\ calls[c].status = "returned" /\ calls[c].kind = "inbounds" /\ ~calls[c].overlapped
        /\ calls[c].args.hours = <<2>>
        /\ \A i \in DOMAIN calls[c].out : calls[c].out[i].v.kind = "error"
        /\ Len(calls[c].used) = 2
        /\ cfg.hours = DEFAULT_TRACKING_HOURS /\ cfg.hiveSenders = <<>>

\* the window of a call's own arguments, in hours
ownHours(call) ==
    IF call.args.hours # <<>> THEN call.args.hours[1]
    ELSE IF call.args.days # <<>> THEN call.args.days[1] * HOURS_PER_DAY
    ELSE call.before.hours
hasOverride(call) == call.args.hours # <<>> \/ call.args.days # <<>>
differentOverrides ==
    /\ \A c \in CallIds : calls[c].overlapped /\ hasOverride(calls[c])
    /\ \A c, d \in CallIds : c # d => ownHours(calls[c]) # ownHours(calls[d])

\* C10: two calls that overlap in time with different hours/days overrides do not
\* affect each other: the scans of each use the window and the sender mappings
\* of its own arguments, and when both have completed the shared hours value is
\* the one from before either began.
C10_OverlappingCallsIsolated ==
    differentOverrides =>
        /\ \A c \in CallIds : \A i \in DOMAIN calls[c].used :
              /\ calls[c].used[i].since = now - ownHours(calls[c]) * HOUR_MS
              /\ calls[c].kind = "inbounds" =>
                    /\ calls[c].used[i].hiveSenders = calls[c].args.hiveSenders
                    /\ calls[c].used[i].tokenSenders = calls[c].args.tokenSenders
        /\ (\A c \in CallIds : finished(c)) => cfg.hours = DEFAULT_TRACKING_HOURS

\* ------------------------------------------------------------------------
\* one batch call, each operation of a Promise.all followed on its own.
\* SpecOrch follows a call from one Promise.all to the next; here the
\* operations the Promise.all started are settled one by one, and those
\* that outlive a rejected Promise.all stay in flight.
\* ------------------------------------------------------------------------
Batch == 1

\* the operations started by the step that led to r: the two scans and the
\* native price of an inbound account, the two scans of an outbound sender,
\* or the price lookups of an outbound sender
launched(r) ==
    IF r.op = "scans"
    THEN {[i |-> r.call.i, op |-> o] :
             o \in IF r.call.kind = "inbounds" THEN {"hive", "token", "price"}
                   ELSE {"hive", "token"}}
    ELSE IF r.op = "prices" THEN {[i |-> r.call.i, op |-> "prices"]}
    ELSE {}

\* awaited by the call: started by the iteration the loop is in
awaited(o) == running(Batch) /\ o.i = calls[Batch].i
lastAwaited(o) == \A p \in inflight : awaited(p) => p = o
accountOf(o) == calls[Batch].args.accounts[o.i]

proceed(o, r) ==
    /\ install(Batch, r)
    /\ inflight' = (inflight \ {o}) \cup launched(r)

BatchInboundsCall(receivers, senders, time) ==
    /\ calls[Batch].status = "idle"
    /\ LET r == inbounds([ArgsNone EXCEPT !.accounts = receivers,
                                          !.hiveSenders = senders[1],
                                          !.tokenSenders = senders[2],
                                          !.hours = time[1], !.days = time[2]], cfg)
       IN /\ install(Batch, r)
          /\ inflight' = launched(r)

BatchOutboundsCall(senders, ignoredReceivers, time) ==
    /\ calls[Batch].status = "idle"
    /\ LET r == outbounds([ArgsNone EXCEPT !.accounts = senders,
                                           !.ignoredReceivers = ignoredReceivers,
                                           !.hours = time[1], !.days = time[2]], cfg)
       IN /\ install(Batch, r)
          /\ inflight' = launched(r)

\* one of the awaited operations resolves while another is still pending
OperationResolves(o) ==
    /\ o \in inflight /\ awaited(o) /\ ~lastAwaited(o)
    /\ inflight' = inflight \ {o}
    /\ UNCHANGED <<calls, cfg, ops, remoteCalls>>
    /\ UNCHANGED restOfOrch

\* the last awaited operation of an inbound account resolves
InboundAllResolved(o, usd) ==
    /\ o \in inflight /\ awaited(o) /\ lastAwaited(o)
    /\ calls[Batch].kind = "inbounds"
    /\ proceed(o, nextAccount([calls[Batch] EXCEPT !.tickers = @ - 1], cfg, report(usd)))

\* the last of the two scans of an outbound sender resolves
OutboundAllResolved(o, empty) ==
    /\ o \in inflight /\ awaited(o) /\ lastAwaited(o)
    /\ calls[Batch].kind = "outbounds" /\ ops[Batch] = "scans"
    /\ LET call == [calls[Batch] EXCEPT !.tickers = @ - 1]
       IN IF empty THEN proceed(o, nextAccount(call, cfg, messageEntry))
          ELSE proceed(o, [call |-> [call EXCEPT !.issued = @ + 1], cfg |-> cfg,
                           op |-> "prices"])

OutboundPricesResolved(o) ==
    /\ o \in inflight /\ awaited(o)
    /\ calls[Batch].kind = "outbounds" /\ ops[Batch] = "prices"
    /\ proceed(o, nextAccount(calls[Batch], cfg, report(0)))

\* an awaited operation rejects: Promise.all rejects at once, the catch of
\* the loop records the error and the loop goes on to the next account,
\* whatever the other operations of the account are doing
OperationRejects(o, message) ==
    /\ o \in inflight /\ awaited(o)
    /\ proceed(o, nextAccount(calls[Batch], cfg, errorEntry(message)))

\* an operation nobody awaits any more comes to its end
OrphanSettles(o) ==
    /\ o \in inflight /\ ~awaited(o)
    /\ inflight' = inflight \ {o}
    /\ UNCHANGED <<calls, cfg, ops, remoteCalls>>
    /\ UNCHANGED restOfOrch

InitBatch ==
    /\ wr = WrIdle /\ now = StartTime /\ cache = CacheEmpty /\ gn = [p \in Callers |-> GnIdle]
    /\ bg = BgIdle /\ api = ApiIdle /\ scan = ScanIdle /\ remote = RemoteIdle
    /\ cfg = CfgIdle
    /\ calls = CallsIdle /\ ops = OpsIdle /\ remoteCalls = 0
    /\ runs = RunsIdle /\ lookup = LookupIdle /\ inflight = {} /\ price = PriceIdle /\ rep = RepIdle

BatchOps == {[i |-> i, op |-> o] : i \in 1..2, o \in {"hive", "token", "price", "prices"}}

NextBatch ==
    \/ \E receivers \in ReceiverArgs, senders \in SenderArgs, time \in TimeArgs :
          BatchInboundsCall(receivers, senders, time)
    \/ \E senders \in OutSenderArgs, ignoredReceivers \in IgnoredArgs, time \in TimeArgs :
          BatchOutboundsCall(senders, ignoredReceivers, time)
    \/ \E o \in BatchOps : OperationResolves(o)
    \/ \E o \in BatchOps, usd \in Usds : InboundAllResolved(o, usd)
    \/ \E o \in BatchOps, empty \in BOOLEAN : OutboundAllResolved(o, empty)
    \/ \E o \in BatchOps : OutboundPricesResolved(o)
    \/ \E o \in BatchOps, message \in Rejections : OperationRejects(o, message)
    \/ \E o \in BatchOps : OrphanSettles(o)

SpecBatch == InitBatch /\ [][NextBatch]_vars

\* C11: within one batch call the ledger scans and price fetches in flight
\* belong to at most one account of the batch at every moment, also after
\* one of the operations started together for an account has failed
C11_OneAccountAtATime ==
    \A o \in inflight, p \in inflight : accountOf(o) = accountOf(p)

\* ------------------------------------------------------------------------
\* the scans: ignored receivers and self-transfers
\* ------------------------------------------------------------------------
\* positions of the history holding a record sent by the analysed account
sentTo(hist, from, to) == {i \in DOMAIN hist : hist[i].from = from /\ hist[i].to = to}

\* C12: in an outbound analysis of a sender with ignored receivers I, no
\* account of I is a recipient, neither of the native nor of the token part
\* (at every moment of the scan, hence in what it returns)
C12_IgnoredNeverRecipient ==
    scan.dir = "out" =>
        \A k \in ToSet(Keys(scan.perRecipient)) \cup ToSet(Keys(scan.perRecipientTxCount))
                 \cup ToSet(Keys(scan.perRecipientSymbolTxCount)) :
            ~includes(scan.ignored, k)

\* s1 sent to r and r sent back to s1, s1 is ignored: the scan of r examined
\* the record sent back and s1 is no recipient, while x is one
C12_Witness ==
    /\ scan.pc = "done" /\ scan.dir = "out" /\ scan.ignored = <<"s1">>
    /\ sentTo(remote.hist, "s1", "r") # {}
    /\ \E i \in sentTo(remote.hist, "r", "s1") : includes(scan.examined, i - 1)
    /\ Has(scan.perRecipient, "x") /\ ~Has(scan.perRecipient, "s1")

\* the inbound records of the window that are no self-transfers: their sum
\* and their number
RECURSIVE inboundExceptSelf(_, _, _)
inboundExceptSelf(hist, i, sc) ==
    IF i > Len(hist) THEN [tot |-> 0, transactions |-> 0]
    ELSE LET rest == inboundExceptSelf(hist, i + 1, sc)
             e == hist[i]
         IN IF /\ T(i) * SECOND_MS >= sc.sinceTs
               /\ e.from # e.to
               /\ e.to = sc.username /\ includes(Values(sc.senders), e.from)
               /\ IF sc.ledger = "hive" THEN e.op = "transfer" /\ e.sym = "HIVE"
                  ELSE isTransferOperation(e.op)
            THEN [tot |-> rest.tot + e.amt, transactions |-> rest.transactions + 1]
            ELSE rest

\* C13: no scan counts a transfer whose sender and recipient are the same
\* account, inbound or outbound, native or token, whatever the mapping of
\* the senders (the analysed receiver may be one of the tracked senders)
C13_SelfTransferNeverCounted ==
    loopOver =>
        IF scan.dir = "out"
        THEN ~Has(scan.perRecipient, scan.username)
             /\ ~Has(scan.perRecipientTxCount, scan.username)
        ELSE LET expected == inboundExceptSelf(remote.hist, 1, scan)
             IN IF scan.ledger = "hive"
                THEN /\ scan.totHiveSent = expected.tot
                     /\ sumTransactions(scan.breakdown) = expected.transactions
                ELSE scan.totTokensTransactions = expected.transactions

\* ------------------------------------------------------------------------
\* beacon.js: refreshNodes against a discovery feed that answers the same
\* until it changes
\* ------------------------------------------------------------------------
feedOf(resp) == [ledger |-> "beacon", hist |-> <<>>, feed |-> resp]

\* refreshNodes(type) completes with what the feed answers now
FeedRefreshDone == BgRefreshDone(remote.feed)

\* the feed answers something else from now on
FeedChanges(resp) ==
    /\ remote.feed # resp
    /\ remote' = feedOf(resp)
    /\ UNCHANGED <<wr, now, cache, gn, bg, api, scan, cfg, calls, ops, remoteCalls,
                   inflight, price, rep, runs, lookup>>

InitRefresh ==
    /\ wr = WrIdle /\ now = StartTime /\ cache = CacheEmpty /\ gn = [p \in Callers |-> GnIdle]
    /\ bg = [pc |-> "fetching", nextPoll |-> StartTime + POLL_PERIOD_MS, advances |-> 0]
    /\ scan = ScanIdle /\ cfg = CfgIdle
    /\ calls = CallsIdle /\ ops = OpsIdle /\ remoteCalls = 0
    /\ runs = RunsIdle /\ lookup = LookupIdle /\ inflight = {} /\ price = PriceIdle /\ rep = RepIdle
    /\ \E t \in Types :
         /\ api = [ApiIdle EXCEPT !.type = t]
         /\ \E resp \in FeedResponses[t] : remote = feedOf(resp)

NextRefresh ==
    \/ FeedRefreshDone
    \/ PollerFire
    \/ \E d \in TimeSteps : Advance(d)
    \/ \E resp \in FeedResponses[api.type] : FeedChanges(resp)

SpecRefresh == InitRefresh /\ [][NextRefresh]_vars

\* the entries of the answer with score 100, no failure and the feature
\* required for the class
qualifying(type, resp) ==
    IF resp.kind = "list"
    THEN SelectSeq(resp.nodes,
                   LAMBDA n : n.score = 100 /\ n.fail = 0
                              /\ REQUIRED_FEATURES[type] \in n.features)
    ELSE <<>>

\* C14: when refreshNodes(type) completes, the cached list is not empty: it
\* holds exactly the endpoints of the qualifying entries when there is one,
\* and the default list of the class otherwise (none qualifies, the fetch
\* fails or times out, the payload is malformed)
C14_RefreshedListNeverEmpty ==
    [][(bg.pc = "fetching" /\ bg'.pc = "idle") =>
           LET type == api.type
               q == qualifying(type, remote.feed)
           IN /\ cache'[type].nodes # <<>>
              /\ cache'[type].lastFetch = now
              /\ cache'[type].nodes =
                     IF q # <<>> THEN [i \in DOMAIN q |-> q[i].endpoint]
                     ELSE DEFAULT_NODES[type]]_vars

\* a refresh has completed on an answer whose first entry does not qualify
\* and whose second does: the list holds the endpoint of the second alone
C14_Witness ==
    /\ bg.pc = "idle" /\ cache[api.type].lastFetch = now
    /\ remote.feed.kind = "list" /\ Len(remote.feed.nodes) = 2
    /\ ~isHealthy(api.type, remote.feed.nodes[1])
    /\ cache[api.type].nodes = <<remote.feed.nodes[2].endpoint>>

\* ------------------------------------------------------------------------
\* getNodeEndpoint: its probes (checked under SpecEndpoint)
\* ------------------------------------------------------------------------
\* the probe in flight is the attempt-th of the call
probing == gn["api"].pc = "probing"
connectivityError == "client has no connectivity"

\* C15: one call of getNodeEndpoint sends at most 3 probes; when the third
\* fails the call throws 'client has no connectivity', which is not the
\* error of an empty list; when a probe succeeds the call returns the url
\* that was probed
C15_AtMostThreeProbes ==
    /\ [](gn["api"].attempt <= 3)
    /\ [][(probing /\ gn'["api"] # gn["api"]) =>
            LET g == gn["api"]
            IN \/ /\ api'.pc = "rpc" /\ api'.apiEndpoint = g.url
                  /\ gn'["api"] = GnIdle
               \/ /\ g.attempt = 3
                  /\ gn'["api"] = GnIdle
                  /\ connectivityError # gnSelect(g, <<>>, 0).err
                  /\ IF api.pc = "pre"
                     THEN api'.pc = "done" /\ api'.error = connectivityError
                     ELSE wr'.outcome = connectivityError
               \/ /\ g.attempt < 3
                  /\ gn'["api"] = [g EXCEPT !.pc = "backoff"]
                  /\ api' = api]_vars

\* the first call of getNodeEndpoint of a logical call gave up after its
\* third probe
C15_Witness ==
    /\ api.pc = "done" /\ api.error = connectivityError
    /\ api.apiEndpoint = None

\* ------------------------------------------------------------------------
\* HivePriceProvider.getHiveUsd, called by two callers that may overlap
\* ------------------------------------------------------------------------
restOfPrice == <<wr, cache, gn, bg, api, scan, remote, cfg, calls, ops, remoteCalls,
                 inflight, rep, runs, lookup>>

GetHiveUsdCall(a) ==
    /\ price.acts[a].pc \in {"idle", "returned", "threw"}
    /\ sumOf([b \in PriceCallers |-> price.acts[b].calls]) < MaxPriceCalls
    /\ price' = getHiveUsd(price, a, now)
    /\ UNCHANGED <<now, restOfPrice>>

\* fetchRetry(...).then(r => r.json()) resolves with the answer of the source
PriceFetched(a, val) ==
    /\ price.acts[a].pc = "fetching"
    /\ price' = [priceFetched(price, a, val) EXCEPT
                    !.fetched = IF truthy(val)
                                THEN <<[t |-> price.acts[a].now, val |-> val[1]]>>
                                ELSE @]
    /\ UNCHANGED <<now, restOfPrice>>

\* fetchRetry gives up after its attempts on the same url
PriceFetchRejected(a) ==
    /\ price.acts[a].pc = "fetching"
    /\ price' = priceRejected(price, a, "fetch error")
    /\ UNCHANGED <<now, restOfPrice>>

PriceRetryWake(a) ==
    /\ price.acts[a].pc = "sleeping"
    /\ price' = priceWake(price, a, now)
    /\ UNCHANGED <<now, restOfPrice>>

\* time passes: one millisecond, or one millisecond less than the caching period
PriceTimeSteps == {1, PriceIdle.cacheMs - 1}
PriceAdvance(d) ==
    /\ price.advances < MaxPriceAdvances
    /\ now' = now + d
    /\ price' = [price EXCEPT !.advances = @ + 1]
    /\ UNCHANGED restOfPrice

InitPrice ==
    /\ wr = WrIdle /\ now = StartTime /\ cache = CacheEmpty /\ gn = [p \in Callers |-> GnIdle]
    /\ bg = BgIdle /\ api = ApiIdle /\ scan = ScanIdle /\ remote = RemoteIdle
    /\ cfg = CfgIdle
    /\ calls = CallsIdle /\ ops = OpsIdle /\ remoteCalls = 0
    /\ runs = RunsIdle /\ lookup = LookupIdle /\ inflight = {} /\ price = PriceIdle /\ rep = RepIdle

NextPrice ==
    \/ \E a \in PriceCallers : GetHiveUsdCall(a)
    \/ \E a \in PriceCallers, val \in PriceAnswers : PriceFetched(a, val)
    \/ \E a \in PriceCallers : PriceFetchRejected(a)
    \/ \E a \in PriceCallers : PriceRetryWake(a)
    \/ \E d \in PriceTimeSteps : PriceAdvance(d)

SpecPrice == InitPrice /\ [][NextPrice]_vars

TTL == DEFAULT_PRICE_CACHING_MINS * MINUTE_MS
called(a) == price'.acts[a].calls = price.acts[a].calls + 1

\* C16: after a fetch issued at time t has brought a price, a call of
\* getHiveUsd at a time now with now - t < TTL returns that price and issues
\* no remote request, and a call with now - t >= TTL issues a remote fetch
\* (t is the time of the latest fetch that brought a price)
C16_MemoWithinTtl ==
    [][\A a \in PriceCallers :
          (called(a) /\ price.fetched # <<>>) =>
              LET f == price.fetched[1]
                  act == price'.acts[a]
              IN IF now - f.t < TTL
                 THEN act.pc = "returned" /\ act.result = <<f.val>> /\ act.requests = 0
                 ELSE act.pc = "fetching" /\ act.requests = 1]_vars

\* a second call made one millisecond before the period is over has
\* returned the memoized price without any request
C16_Witness ==
    \E a \in PriceCallers :
        /\ price.fetched # <<>> /\ now - price.fetched[1].t = TTL - 1
        /\ price.acts[a].calls = 2 /\ price.acts[a].pc = "returned"
        /\ price.acts[a].requests = 0
        /\ price.acts[a].result = <<price.fetched[1].val>>

\* C17: when the fetch issued after the memo has expired fails (a transport
\* error on every retry, or an answer without a usable price), getHiveUsd
\* leaves the memo as it is and returns the stale memoized value, or zero
\* when nothing was ever memoized (stated for a caller that is alone)
C17_StaleValueOnFailure ==
    [][\A a \in PriceCallers :
          (/\ \A b \in PriceCallers \ {a} : price.acts[b].calls = 0
           /\ price.acts[a].pc = "fetching"
           /\ price'.acts[a].pc \in {"returned", "threw"}
           /\ price'.acts[a].outcome # "price") =>
              /\ price'.memo = price.memo
              /\ price'.acts[a].pc = "returned"
              /\ price'.acts[a].result =
                     <<IF price.memo = <<>> THEN 0 ELSE price.memo[1].val>>]_vars

\* ------------------------------------------------------------------------
\* one report: an outbound sender, the pricing of an inbound token
\* breakdown, or the final ordering of an inbound batch
\* ------------------------------------------------------------------------
restOfReport == <<wr, now, cache, gn, bg, api, scan, remote, cfg, calls, ops, remoteCalls,
                  inflight, price, runs, lookup>>

\* what the scans may return
Amounts == {1, 2}
Symbols == {"DOOM", "BUDS"}
OrderedMaps(keys, values) ==
    {m \in SeqsUpTo([k : keys, v : values], 2) :
        \A i, j \in DOMAIN m : i # j => m[i].k # m[j].k}
Bags == {<<[k |-> "DOOM", v |-> 1]>>, <<[k |-> "BUDS", v |-> 2]>>,
         <<[k |-> "DOOM", v |-> 2], [k |-> "BUDS", v |-> 1]>>}
HiveMaps == OrderedMaps({"x", "y"}, Amounts)
TokMaps == OrderedMaps({"y", "z"}, Bags)
Raws == OrderedMaps({"pA", "pB"}, Bags)
\* what the outbound scans return: every native transfer moved one coin,
\* every token transfer moved the whole amount of its symbol
HiveOutbounds ==
    {[perRecipient |-> m, perRecipientTxCount |-> m] : m \in HiveMaps}
TokenOutbounds ==
    {[perRecipient |-> m,
      perRecipientTxCount |-> [i \in DOMAIN m |-> [k |-> m[i].k, v |-> Len(m[i].v)]],
      perRecipientSymbolTxCount |->
          [i \in DOMAIN m |->
              [k |-> m[i].k, v |-> [j \in DOMAIN m[i].v |-> [k |-> m[i].v[j].k, v |-> 1]]]]] :
        m \in TokMaps}
\* prices in whole cents, which no toFixed of the code alters
HiveUsds == {0, CENT, 2 * CENT}
TokenUsds == {0, CENT, 2 * CENT}
\* the entries of an inbound batch, in the order of the receivers
EntryValues == {entryOf(0, 0), entryOf(2, 1), entryOf(1, 2), entryOf(5, 0),
                errorEntry("request failed")}
BatchEntries ==
    {m \in SeqsUpTo([k : {"r1", "r2", "r3"}, v : EntryValues], 3) :
        \A i, j \in DOMAIN m : i # j => m[i].k # m[j].k}

OutboundScansDone(hive, tok) ==
    /\ rep.pc = "scans" /\ rep.kind = "out"
    /\ rep' = outboundReport(hive, tok)
    /\ UNCHANGED restOfReport

InboundTokenScanDone(raw) ==
    /\ rep.pc = "scans" /\ rep.kind = "in"
    /\ rep' = inboundPricing(raw)
    /\ UNCHANGED restOfReport

HiveUsdResolves(hiveUsd) ==
    /\ rep.pc = "hiveUsd"
    /\ rep' = hiveUsdArrived(rep, hiveUsd)
    /\ UNCHANGED restOfReport

HiveUsdRejects(message) ==
    /\ rep.pc = "hiveUsd"
    /\ rep' = pricingFailed(rep, message)
    /\ UNCHANGED restOfReport

TokenPriceResolves(usdEach) ==
    /\ rep.pc = "tokenPrice"
    /\ rep' = tokenPriceArrived(rep, usdEach)
    /\ UNCHANGED restOfReport

TokenPriceRejects(message) ==
    /\ rep.pc = "tokenPrice"
    /\ rep' = pricingFailed(rep, message)
    /\ UNCHANGED restOfReport

\* inbounds after its loop: the entries are partitioned and the successes sorted
InboundsSorted(entries) ==
    /\ rep.pc = "scans" /\ rep.kind = "batch"
    /\ rep' = [rep EXCEPT !.pc = "done", !.entry = "report", !.listed = entries,
                          !.recipients = partitionAndSort(entries)]
    /\ UNCHANGED restOfReport

InitReport ==
    /\ wr = WrIdle /\ now = StartTime /\ cache = CacheEmpty /\ gn = [p \in Callers |-> GnIdle]
    /\ bg = BgIdle /\ api = ApiIdle /\ scan = ScanIdle /\ remote = RemoteIdle
    /\ cfg = CfgIdle
    /\ calls = CallsIdle /\ ops = OpsIdle /\ remoteCalls = 0
    /\ runs = RunsIdle /\ lookup = LookupIdle /\ inflight = {} /\ price = PriceIdle
    /\ \E kind \in {"out", "in", "batch"} : rep = [RepIdle EXCEPT !.pc = "scans", !.kind = kind]

NextReport ==
    \/ \E hive \in HiveOutbounds, tok \in TokenOutbounds : OutboundScansDone(hive, tok)
    \/ \E raw \in Raws : InboundTokenScanDone(raw)
    \/ \E hiveUsd \in HiveUsds : HiveUsdResolves(hiveUsd)
    \/ \E message \in Rejections : HiveUsdRejects(message)
    \/ \E usdEach \in TokenUsds : TokenPriceResolves(usdEach)
    \/ \E message \in Rejections : TokenPriceRejects(message)
    \/ \E entries \in BatchEntries : InboundsSorted(entries)

SpecReport == InitReport /\ [][NextReport]_vars

\* C18: while one report is aggregated (an inbound token breakdown or the
\* report of one outbound sender) the remote price of a symbol is looked up
\* at most once, however many holders have it and although outbounds asks
\* for every price again when it totals
C18_OneLookupPerSymbol ==
    /\ NoDuplicates(rep.lookups)
    /\ (rep.pc = "done" /\ rep.entry = "report" /\ rep.kind # "batch") =>
           ToSet(rep.lookups) = {rep.triples[i].sym : i \in DOMAIN rep.triples}

\* the report of a sender is complete, two recipients hold DOOM, the totals
\* have been computed and DOOM was looked up once
C18_Witness ==
    /\ rep.pc = "done" /\ rep.kind = "out" /\ rep.entry = "report"
    /\ Cardinality({i \in DOMAIN rep.triples : rep.triples[i].sym = "DOOM"}) = 2
    /\ rep.totUsdSentInTokens > 0
    /\ Cardinality({i \in DOMAIN rep.lookups : rep.lookups[i] = "DOOM"}) = 1

\* C19: a sender whose two scans counted nothing gets {recipients: {},
\* message} and no price is looked up for it, neither the native price nor
\* the price of a token
nothingCounted == rep.kind = "out" /\ rep.pc # "scans" /\ rep.hiveMap = <<>> /\ rep.bags = <<>>
C19_NoActivityNoLookup ==
    nothingCounted =>
        /\ rep.pc = "done" /\ rep.entry = "message" /\ rep.recipients = <<>>
        /\ rep.nativeLookups = 0 /\ rep.lookups = <<>>

C19_Witness == nothingCounted /\ rep.entry = "message"

\* the order in which the recipients of a sender are met: those of the
\* native scan, then those the token scan adds
encounterOrder ==
    IF rep.kind = "batch"
    THEN Keys(success(rep.listed))
    ELSE Keys(rep.hiveMap)
         \o SelectSeq(Keys(rep.bags), LAMBDA u : ~Has(rep.hiveMap, u))
positionIn(seq, x) == CHOOSE i \in DOMAIN seq : seq[i] = x
\* what the listed entry of account u must be worth
worth(u) ==
    IF rep.kind = "batch" THEN combinedUsd(Get(rep.listed, u, entryOf(0, 0)))
    ELSE Get(rep.hiveMap, u, 0) * rep.hiveUsd
         + sumOf([i \in DOMAIN rep.triples |->
                     IF rep.triples[i].user = u
                     THEN rep.triples[i].amt * Get(rep.cache, rep.triples[i].sym, 0)
                     ELSE 0])

\* C20: the recipients of an outbound report and the successful accounts of
\* an inbound report are listed by non-increasing (native USD + token USD),
\* entries of equal total in the order in which they were first met
C20_SortedByCombinedUsd ==
    (rep.pc = "done" /\ rep.entry = "report" /\ rep.kind # "in") =>
        LET s == success(rep.recipients)
        IN /\ Len(s) = Len(encounterOrder)
           /\ ToSet(Keys(s)) = ToSet(encounterOrder)
           /\ \A i \in DOMAIN s : combinedUsd(s[i].v) = worth(s[i].k)
           /\ \A i, j \in DOMAIN s :
                 i < j => /\ combinedUsd(s[i].v) >= combinedUsd(s[j].v)
                          /\ combinedUsd(s[i].v) = combinedUsd(s[j].v) =>
                                 positionIn(encounterOrder, s[i].k)
                                     < positionIn(encounterOrder, s[j].k)
           /\ rep.kind = "batch" =>
                 rep.recipients = s \o errors(rep.listed)

\* a sender's report of three recipients: the one met last is worth most and
\* is listed first, the two others are worth the same and keep their order
C20_Witness ==
    /\ rep.pc = "done" /\ rep.kind = "out" /\ rep.entry = "report"
    /\ Keys(rep.recipients) = <<"z", "x", "y">>
    /\ combinedUsd(rep.recipients[2].v) = combinedUsd(rep.recipients[3].v)
    /\ combinedUsd(rep.recipients[1].v) > combinedUsd(rep.recipients[2].v)

\* C21: in the result of inbounds every account whose scans completed on
\* both ledgers precedes every account that raised an error; the failed
\* accounts keep the order of the request and each carries the error message
\* and nothing else
inboundsListed == rep.kind = "batch" /\ rep.pc = "done"
C21_ErrorsAfterSuccesses ==
    inboundsListed =>
        LET out == rep.recipients
        IN /\ \A i, j \in DOMAIN out :
                 (out[i].v.kind = "report" /\ out[j].v.kind = "error") => i < j
           /\ errors(out) = errors(rep.listed)
           /\ Len(out) = Len(rep.listed)
           /\ \A i \in DOMAIN out :
                 out[i].v.kind = "error" =>
                     /\ DOMAIN out[i].v = {"kind", "error"}
                     /\ out[i].v.error \in Rejections

\* three receivers, the first and the last of which failed: the one that
\* succeeded is listed first, the failed ones follow in the order of the request
C21_Witness ==
    /\ inboundsListed
    /\ Keys(rep.listed) = <<"r3", "r1", "r2">>
    /\ Keys(rep.recipients) = <<"r1", "r3", "r2">>
    /\ rep.recipients[1].v.kind = "report"
    /\ rep.recipients[2].v.kind = "error" /\ rep.recipients[3].v.kind = "error"

\* ------------------------------------------------------------------------
\* the same account scanned twice on a history that does not grow, every
\* page request going through withRetries and an endpoint of its class
\* ------------------------------------------------------------------------
restOfRescan == <<now, cache, gn, bg, api, remote, cfg, calls, ops, remoteCalls,
                  inflight, price, rep, lookup>>

\* the AggregationResult: what analyzeInbound / analyzeOutbound returns
resultOf(sc) ==
    [breakdown |-> sc.breakdown, totHiveSent |-> sc.totHiveSent,
     totHiveTransactions |-> sc.totHiveTransactions,
     raw |-> sc.raw, counts |-> sc.counts,
     totTokensTransactions |-> sc.totTokensTransactions,
     perRecipient |-> sc.perRecipient, perRecipientTxCount |-> sc.perRecipientTxCount,
     perRecipientSymbolTxCount |-> sc.perRecipientSymbolTxCount]

\* the endpoints of the class of the ledger
endpointsOf(ledger) == Range(DEFAULT_NODES[IF ledger = "hive" THEN "hive" ELSE "heh"])

\* a page request is issued: withRetries starts and an endpoint is selected
pageRequest(r, url) == [r EXCEPT !.endpoint = url]

\* analyzeInbound / analyzeOutbound is called: up to the first page request
ScanStarts(url) ==
    /\ scan.pc = "called"
    /\ scan' = analyze(scan.ledger, scan.dir, scan.username, scan.sinceTs, cfg)
    /\ wr' = WrStart(DEFAULT_RETRIES, DEFAULT_BASE_DELAY)
    /\ runs' = pageRequest(runs, url)
    /\ UNCHANGED restOfRescan

\* the request throws: withRetries sleeps, or gives up and the scan rejects
PageAttemptFails(e) ==
    /\ scan.pc = "page" /\ wr.pc = "fn"
    /\ wr' = WrFnThrow(wr, e)
    /\ scan' = IF wr'.pc = "thrown" THEN [scan EXCEPT !.pc = "failed"] ELSE scan
    /\ runs' = [runs EXCEPT !.retried = TRUE]
    /\ UNCHANGED restOfRescan

\* the sleep of withRetries is over: the request is sent to the endpoint
\* getNodeEndpoint selects now
PageRetried(url) ==
    /\ scan.pc = "page" /\ wr.pc = "sleep"
    /\ wr' = WrWake(wr)
    /\ runs' = pageRequest(runs, url)
    /\ UNCHANGED <<scan, restOfRescan>>

\* the endpoint answers with the page of the history
PageArrives ==
    /\ scan.pc = "page" /\ wr.pc = "fn"
    /\ wr' = WrFnReturn(wr, runs.endpoint)
    /\ scan' = IF scan.ledger = "hive"
               THEN hivePage(scan, getAccountHistory(remote.hist, scan.start, scan.limit))
               ELSE tokenPage(scan, getHistory(remote.hist, scan.limit, scan.offset))
    /\ UNCHANGED <<runs, restOfRescan>>

\* await sleep(apiCallsDelay) is over: the next page is requested or the loop ends
NextPageRequested(url) ==
    /\ scan.pc = "sleep"
    /\ scan' = afterSleep(scan)
    /\ IF scan'.pc = "page"
       THEN wr' = WrStart(DEFAULT_RETRIES, DEFAULT_BASE_DELAY) /\ runs' = pageRequest(runs, url)
       ELSE UNCHANGED <<wr, runs, lookup>>
    /\ UNCHANGED restOfRescan

\* the prices of the token inbound scan arrive, the same for both scans
RescanPriced ==
    /\ scan.pc = "pricing"
    /\ scan' = [scan EXCEPT !.pc = "done"]
    /\ UNCHANGED <<wr, runs, restOfRescan>>

\* the first scan has returned: the same account is scanned again with the
\* same cutoff
ScanAgain ==
    /\ scan.pc = "done" /\ runs.first = <<>>
    /\ runs' = [RunsIdle EXCEPT !.first = <<resultOf(scan)>>, !.firstRetried = runs.retried]
    /\ scan' = [scan EXCEPT !.pc = "called"]
    /\ wr' = WrIdle
    /\ UNCHANGED restOfRescan

\* the transfers the histories of the two scans are made of
RescanOps(ledger, dir) ==
    {o \in LedgerOps[ledger][dir] :
        /\ o.op \in {"transfer", "tokens_transfer", "tokens_stake"}
        /\ o.sym \in {"HIVE", "DOOM"}
        /\ o.from # o.to /\ o.from \in {"s1", "r"}}

InitRescan ==
    /\ wr = WrIdle /\ now = StartTime /\ cache = CacheEmpty /\ gn = [p \in Callers |-> GnIdle]
    /\ bg = BgIdle /\ api = ApiIdle
    /\ calls = CallsIdle /\ ops = OpsIdle /\ remoteCalls = 0
    /\ runs = RunsIdle /\ lookup = LookupIdle /\ inflight = {} /\ price = PriceIdle /\ rep = RepIdle
    /\ \E ledger \in {"hive", "token"}, dir \in {"in", "out"} :
         \E hist \in SeqsUpTo(RescanOps(ledger, dir), MaxHist), limit \in 1..MaxLimit :
           \E cutoff \in Cutoffs(hist) :
             /\ remote = [ledger |-> ledger, hist |-> hist]
             /\ cfg = [CfgIdle EXCEPT !.hiveSenders = <<[k |-> P_A, v |-> "s1"]>>,
                                      !.tokenSenders = <<[k |-> P_A, v |-> "s1"]>>,
                                      !.ignoredReceivers = <<"x">>,
                                      !.hiveHistoryLimit = limit, !.heHistoryLimit = limit]
             /\ scan = [ScanIdle EXCEPT !.pc = "called", !.ledger = ledger, !.dir = dir,
                                        !.username = "r", !.sinceTs = cutoff]

NextRescan ==
    \/ \E url \in endpointsOf(scan.ledger) : ScanStarts(url)
    \/ \E e \in Rejections : PageAttemptFails(e)
    \/ \E url \in endpointsOf(scan.ledger) : PageRetried(url)
    \/ PageArrives
    \/ \E url \in endpointsOf(scan.ledger) : NextPageRequested(url)
    \/ RescanPriced
    \/ ScanAgain

SpecRescan == InitRescan /\ [][NextRescan]_vars

\* C22: on a history that does not grow, the second scan of an account with
\* the same cutoff, sender mapping and prices returns what the first scan
\* returned, whichever endpoints answered and whichever requests had to be
\* retried in either scan
rescanned == scan.pc = "done" /\ runs.first # <<>>
FineUsds == {2, 4, CENT \div 2}

InitTotals ==
    /\ wr = WrIdle /\ now = StartTime /\ cache = CacheEmpty /\ gn = [p \in Callers |-> GnIdle]
    /\ bg = BgIdle /\ api = ApiIdle /\ scan = ScanIdle /\ remote = RemoteIdle
    /\ cfg = CfgIdle
    /\ calls = CallsIdle /\ ops = OpsIdle /\ remoteCalls = 0
    /\ runs = RunsIdle /\ lookup = LookupIdle /\ inflight = {} /\ price = PriceIdle
    /\ \E kind \in {"out", "in"} : rep = [RepIdle EXCEPT !.pc = "scans", !.kind = kind]

NextTotals ==
    \/ \E hive \in HiveOutbounds, tok \in TokenOutbounds : OutboundScansDone(hive, tok)
    \/ \E raw \in Raws : InboundTokenScanDone(raw)
    \/ \E hiveUsd \in FineUsds : HiveUsdResolves(hiveUsd)
    \/ \E message \in Rejections : HiveUsdRejects(message)
    \/ \E usdEach \in FineUsds : TokenPriceResolves(usdEach)
    \/ \E message \in Rejections : TokenPriceRejects(message)

SpecTotals == InitTotals /\ [][NextTotals]_vars

\* the unrounded USD value of the token amounts of the report, of one holder
\* or of all
exactTokensUsd(holders) ==
    sumOf([i \in DOMAIN rep.triples |->
              IF rep.triples[i].user \in holders
              THEN rep.triples[i].amt * Get(rep.cache, rep.triples[i].sym, 0)
              ELSE 0])
everyHolder == {rep.triples[i].user : i \in DOMAIN rep.triples}
reportPrinted == rep.pc = "done" /\ rep.entry = "report" /\ rep.kind \in {"in", "out"}

\* C23: every aggregate USD total of a report (tokens.totUsd of an inbound
\* report, tokens.totUsd of each recipient of an outbound report, the totals
\* of the outbound stats) is the rounding of the sum of the unrounded values
\* of the symbols, never a sum of values that were rounded already
C23_TotalsRoundedAtOutput ==
    reportPrinted =>
        /\ rep.kind = "in" => rep.totUsd = toFixed(exactTokensUsd(everyHolder), 8)
        /\ rep.kind = "out" =>
              /\ \A i \in DOMAIN rep.recipients :
                    rep.recipients[i].v.tokens.totUsd =
                        toFixed(exactTokensUsd({rep.recipients[i].k}), 8)
              /\ rep.totUsdSentInTokens = toFixed(exactTokensUsd(everyHolder), 2)
              /\ rep.totUsdSentInHive =
                    toFixed(sumOf(Values(rep.hiveMap)) * rep.hiveUsd, 2)

\* ------------------------------------------------------------------------
\* the time window of a call (checked under SpecOrch)
\* ------------------------------------------------------------------------
\* hours if given, else days * 24 if given, else the configured default
windowOf(args) ==
    IF args.hours # <<>> THEN args.hours[1]
    ELSE IF args.days # <<>> THEN args.days[1] * HOURS_PER_DAY
    ELSE DEFAULT_TRACKING_HOURS

outboundPrinted == rep.pc = "done" /\ rep.entry = "report" /\ rep.kind = "out"
\* the amounts of the symbols of a breakdown
amountsOf(breakdown) ==
    [i \in DOMAIN breakdown |-> [k |-> breakdown[i].k, v |-> breakdown[i].v.amount]]

\* C25: the recipients of an outbound report are exactly those found by the
\* native scan or by the token scan, each listed once; the native total and
\* count of a recipient are those of the native scan (zero when it found
\* none), its token amounts and count those of the token scan
C25_MergedWithoutDoubleCounting ==
    outboundPrinted =>
        /\ ToSet(Keys(rep.recipients)) = ToSet(Keys(rep.hiveMap)) \cup ToSet(Keys(rep.bags))
        /\ NoDuplicates(Keys(rep.recipients))
        /\ \A i \in DOMAIN rep.recipients :
              LET user == rep.recipients[i].k
                  data == rep.recipients[i].v
              IN /\ data.hive.totHive = Get(rep.hiveMap, user, 0)
                 /\ data.hive.transactions = Get(rep.hiveCountMap, user, 0)
                 /\ amountsOf(data.tokens.breakdown) = Get(rep.bags, user, <<>>)
                 /\ data.tokens.transactions = Get(rep.tokenCountMap, user, 0)

\* y received coins on both ledgers, x on the native one only and z tokens
\* only: the report lists the three, y with both parts
C25_Witness ==
    /\ outboundPrinted
    /\ ToSet(Keys(rep.hiveMap)) = {"x", "y"} /\ ToSet(Keys(rep.bags)) = {"y", "z"}
    /\ Len(rep.recipients) = 3
    /\ LET y == Get(rep.recipients, "y", None)
       IN y.hive.totHive = 2 /\ y.hive.transactions = 2 /\ y.tokens.transactions = 2

\* ------------------------------------------------------------------------
\* the stopping rule of the scans (checked under SpecScan)
\* ------------------------------------------------------------------------
\* the sums of the records from position i down to the first record that is
\* older than the cutoff, that record excluded
RECURSIVE sumsDownFrom(_, _, _)
sumsDownFrom(sc, hist, i) ==
    IF i = 0 THEN sc
    ELSE LET e == IF sc.ledger = "hive" THEN hiveEntry(hist, i - 1) ELSE tokenTx(hist, i)
         IN IF tsOf(sc, e) < sc.sinceTs THEN sc
            ELSE sumsDownFrom(entryStep(sc, e), hist, i - 1)
sumsOfWindow ==
    resultOf(afterLoop(sumsDownFrom(
        analyze(scan.ledger, scan.dir, scan.username, scan.sinceTs, cfg),
        remote.hist, Len(remote.hist))))
\* the scan has met a record older than the cutoff, or its loop is over
\* (which an empty page brings about at once)
stopped == ~scan.more \/ scan.pc \in {"done", "pricing", "failed"}

\* C26: once a scan has seen a record older than the cutoff or has received
\* an empty page it issues no further page request and examines no further
\* record, and what it returns holds the sums of the records of the window
\* only: neither the record that stopped it nor any older one contributes
C26_StopsAtCutoff ==
    /\ [](loopOver => resultOf(scan) = sumsOfWindow)
    /\ [][stopped => /\ scan'.requests = scan.requests
                     /\ scan'.examined = scan.examined
                     /\ resultOf(scan') = resultOf([scan EXCEPT !.totHiveTransactions =
                                                                 scan'.totHiveTransactions])]_vars

\* the second page held a record older than the cutoff: the scan returned
\* without requesting the page of the still older records
C26_Witness ==
    /\ scan.pc = "done" /\ ~scan.more
    /\ scan.requests = 2 /\ scan.limit = 1
    /\ Len(scan.examined) = 1 /\ Len(remote.hist) = 3

\* ------------------------------------------------------------------------
\* the endpoint registry of one class, used by two callers of
\* getNodeEndpoint that may overlap, with the background refresh
\* ------------------------------------------------------------------------
MaxGnCalls == 2
DirectCallerList == <<"other", "third">>
DirectCallers == Range(DirectCallerList)
\* what the feed answers during one run: nothing, no list, or a list of one
\* or two healthy entries the first of which is a default endpoint too
RegistryFeeds(type) ==
    {resp \in FeedResponses[type] :
        \/ resp.kind # "list"
        \/ /\ Len(resp.nodes) >= 1
           /\ \A i \in DOMAIN resp.nodes : isHealthy(type, resp.nodes[i])
           /\ resp.nodes[1].endpoint = DEFAULT_NODES[type][1]}
\* the callers are alike: the second one calls after the first has called
mayCall(p) == p = DirectCallerList[1] \/ gn[DirectCallerList[1]].calls > gn[p].calls
active(g) == g.pc \in {"refreshing", "probing", "backoff"}
\* a refresh of the class completes while the call g is under way
sawRefresh(g) == IF active(g) THEN [g EXCEPT !.refreshed = TRUE] ELSE g

\* getNodeEndpoint({type, prevUrl}) is called, with no prevUrl or with the
\* endpoint the caller got from its previous call
PrevUrls(g) == {None} \cup (IF g.pc = "returned" THEN {g.url} ELSE {})
RegistryCall(p, prevUrl, r) ==
    /\ ~active(gn[p]) /\ mayCall(p)
    /\ sumOf([i \in 1..Len(DirectCallerList) |-> gn[DirectCallerList[i]].calls]) < MaxGnCalls
    /\ LET e == gnEnter(api.type,
                        [GnIdle EXCEPT !.prevUrl = prevUrl, !.calls = gn[p].calls + 1],
                        cache, r)
       IN /\ e.valid
          /\ gn' = [gn EXCEPT ![p] = e.g]
          /\ cache' = e.c
    /\ UNCHANGED <<wr, now, bg, api, restOfEndpoint>>

\* await refreshNodes(type) returns to the call of p with what the feed answers
RegistryRefreshDone(p, r) ==
    /\ gn[p].pc = "refreshing"
    /\ LET e == gnRefreshed(api.type, gn[p], cache, remote.feed, r)
       IN /\ e.valid
          /\ gn' = [q \in Callers |->
                       IF q = p THEN [e.g EXCEPT !.refreshed = TRUE] ELSE sawRefresh(gn[q])]
          /\ cache' = e.c
    /\ UNCHANGED <<wr, now, bg, api, restOfEndpoint>>

\* a background refreshNodes(type) completes
RegistryBgRefreshDone ==
    /\ bg.pc = "fetching"
    /\ cache' = refreshNodes(api.type, remote.feed, cache)
    /\ bg' = [bg EXCEPT !.pc = "idle"]
    /\ gn' = [q \in Callers |-> sawRefresh(gn[q])]
    /\ UNCHANGED <<wr, now, api, restOfEndpoint>>

\* ten minutes to the millisecond, and one millisecond more
RegistryTimeSteps == {HEALTH_STALE_AFTER_MS, HEALTH_STALE_AFTER_MS + 1}

InitRegistry ==
    /\ wr = WrIdle /\ now = StartTime /\ cache = CacheEmpty /\ gn = [p \in Callers |-> GnIdle]
    /\ bg = [pc |-> "fetching", nextPoll |-> StartTime + POLL_PERIOD_MS, advances |-> 0]
    /\ scan = ScanIdle /\ cfg = CfgIdle
    /\ calls = CallsIdle /\ ops = OpsIdle /\ remoteCalls = 0
    /\ runs = RunsIdle /\ lookup = LookupIdle /\ inflight = {} /\ price = PriceIdle /\ rep = RepIdle
    /\ \E t \in {"he"} :
         /\ api = [ApiIdle EXCEPT !.type = t]
         /\ \E resp \in RegistryFeeds(t) : remote = feedOf(resp)

NextRegistry ==
    \/ \E p \in DirectCallers, r \in Randoms :
          \E prevUrl \in PrevUrls(gn[p]) : RegistryCall(p, prevUrl, r)
    \/ \E p \in DirectCallers, r \in Randoms : RegistryRefreshDone(p, r)
    \/ \E p \in DirectCallers : GnProbeOk(p)
    \/ \E p \in DirectCallers : GnProbeFail(p)
    \/ \E p \in DirectCallers, r \in Randoms : GnBackoffOver(p, r)
    \/ RegistryBgRefreshDone
    \/ PollerFire
    \/ \E d \in RegistryTimeSteps : Advance(d)

SpecRegistry == InitRegistry /\ [][NextRegistry]_vars

\* the call of p enters getNodeEndpoint: a new call, or the recursive call
\* after a backoff
entersGn(p) ==
    \/ gn'[p].calls = gn[p].calls + 1
    \/ gn[p].pc = "backoff" /\ gn'[p].pc # "backoff"

\* C27: getNodeEndpoint issues a discovery fetch exactly when, once prevUrl is
\* removed, the cached list is empty or its last refresh is more than ten
\* minutes old; with a non-empty fresh list it selects an endpoint of the
\* cached list and no discovery fetch is made (lastFetch stays).
C27_RefreshExactlyWhenEmptyOrStale ==
    [][\A p \in DirectCallers :
         entersGn(p) =>
            LET nodes == dropPrev(cache[api.type].nodes, gn'[p].prevUrl)
                needs == \/ Len(nodes) = 0
                         \/ now - cache[api.type].lastFetch > HEALTH_STALE_AFTER_MS
            IN /\ (gn'[p].pc = "refreshing") <=> needs
               /\ ~needs => /\ gn'[p].pc = "probing"
                            /\ gn'[p].url \in Range(nodes)
                            /\ cache'[api.type].lastFetch = cache[api.type].lastFetch]_vars

\* a second call that names the endpoint of the first finds the list
\* refreshed exactly ten minutes ago and probes an endpoint of it at once
C27_Witness ==
    \E p \in DirectCallers :
        /\ gn[p].pc = "probing" /\ gn[p].calls = 2 /\ gn[p].attempt = 1
        /\ gn[p].prevUrl # None /\ ~gn[p].refreshed
        /\ now - cache[api.type].lastFetch = HEALTH_STALE_AFTER_MS

\* C28: a call made with prevUrl during which no refresh of the class
\* completed returns an endpoint other than prevUrl, and at its return
\* prevUrl is not in the cached list.
C28_PrevUrlExcluded ==
    [][\A p \in DirectCallers :
         (/\ gn[p].pc = "probing" /\ gn'[p].pc = "returned"
          /\ gn'[p].prevUrl # None /\ ~gn'[p].refreshed)
         => /\ gn'[p].url # gn'[p].prevUrl
            /\ gn'[p].prevUrl \notin Range(cache'[api.type].nodes)]_vars

\* a call that named the endpoint of the previous call returned another one
\* with no refresh in between
C28_Witness ==
    \E p \in DirectCallers :
        /\ gn[p].pc = "returned" /\ gn[p].prevUrl # None /\ ~gn[p].refreshed
        /\ gn[p].url # gn[p].prevUrl
        /\ gn[p].prevUrl \notin Range(cache[api.type].nodes)

\* C29: no call of getNodeEndpoint fails with 'No healthy <type> nodes
\* available', whatever the calls that overlap it evict and whatever the
\* refreshes store.
C29_NeverNoHealthyNodes ==
    \A p \in DirectCallers : gn[p].err # "No healthy nodes available"

\* the failed probes of two overlapping calls emptied the fresh list, and
\* the retry of one of them found it empty
C29_Witness ==
    \E p, q \in DirectCallers :
        /\ p # q
        /\ gn[p].pc = "backoff" /\ gn[q].pc = "refreshing" /\ gn[q].attempt = 2
        /\ cache[api.type].nodes = <<>>
        /\ now - cache[api.type].lastFetch <= HEALTH_STALE_AFTER_MS

\* a refreshNodes(type) completes: the background one, or the one a call awaits
refreshCompletes ==
    \/ bg.pc = "fetching" /\ bg'.pc = "idle"
    \/ \E p \in DirectCallers : gn[p].pc = "refreshing" /\ gn'[p].pc # "refreshing"

\* C30: a refresh whose discovery request failed, timed out or answered
\* something malformed ends with the default endpoints in the cache and
\* lastFetch set to the current time; the call that awaited it goes on to
\* probe a default endpoint and no call receives an error.
C30_RefreshAbsorbsFailure ==
    [][(refreshCompletes /\ remote.feed.kind \in {"fail", "malformed"})
       => /\ cache'[api.type] = [nodes |-> DEFAULT_NODES[api.type], lastFetch |-> now]
          /\ \A p \in DirectCallers :
                /\ gn'[p].err = gn[p].err
                /\ gn[p].pc = "refreshing" /\ gn'[p].pc # "refreshing"
                   => /\ gn'[p].pc = "probing"
                      /\ gn'[p].url \in Range(DEFAULT_NODES[api.type])]_vars

\* a call found the list stale, its discovery request failed, and it probes
\* a default endpoint
C30_Witness ==
    \E p \in DirectCallers :
        /\ remote.feed.kind \in {"fail", "malformed"}
        /\ gn[p].pc = "probing" /\ gn[p].refreshed /\ gn[p].url \in Range(DEFAULT_NODES[api.type])
        /\ now > StartTime
        /\ bg.pc = "fetching" /\ bg.nextPoll = StartTime + POLL_PERIOD_MS
        /\ cache[api.type] = [nodes |-> DEFAULT_NODES[api.type], lastFetch |-> now]

\* ------------------------------------------------------------------------
\* inbound scans under a mapping with two keys for one account
\* ------------------------------------------------------------------------
\* the records of the window that the inbound test of the ledger accepts as
\* sent by S to R: their summed amount and their number
RECURSIVE matchesFrom(_, _, _, _, _, _)
matchesFrom(ledger, hist, i, cutoff, S, R) ==
    IF i > Len(hist) THEN [tot |-> 0, transactions |-> 0]
    ELSE LET rest == matchesFrom(ledger, hist, i + 1, cutoff, S, R)
             match == /\ T(i) * SECOND_MS >= cutoff
                      /\ hist[i].from = S /\ hist[i].to = R
                      /\ IF ledger = "hive"
                         THEN hist[i].op = "transfer" /\ hist[i].sym = "HIVE"
                         ELSE isTransferOperation(hist[i].op)
         IN IF match
            THEN [tot |-> rest.tot + hist[i].amt, transactions |-> rest.transactions + 1]
            ELSE rest
RECURSIVE allMatches(_, _, _, _, _, _)
allMatches(ledger, hist, cutoff, accounts, R, field) ==
    IF accounts = {} THEN 0
    ELSE LET S == CHOOSE a \in accounts : TRUE
         IN matchesFrom(ledger, hist, 1, cutoff, S, R)[field]
              + allMatches(ledger, hist, cutoff, accounts \ {S}, R, field)

inboundOver == loopOver /\ scan.dir = "in"
\* what the scan holds for the category of a key: total and count
heldFor(sc, key) ==
    IF sc.ledger = "hive"
    THEN Get(sc.breakdown, camelFromEnum(key), [tot |-> 0, transactions |-> 0])
    ELSE [tot |-> sumOf(Values(Get(sc.raw, camelFromEnum(key), <<>>))),
          transactions |-> sumOf(Values(Get(sc.counts, camelFromEnum(key), <<>>)))]
\* the overall count of the scan
overallCount(sc) ==
    IF sc.ledger = "hive" THEN sc.totHiveTransactions ELSE sc.totTokensTransactions
\* keys i < j of the mapping name the same account, and i is the first that does
sameAccount(senders, i, j) ==
    /\ i < j /\ senders[i].v = senders[j].v
    /\ \A h \in 1..(i - 1) : senders[h].v # senders[i].v
firstKeyTakesAll(i, j) ==
    LET sent == matchesFrom(scan.ledger, remote.hist, 1, scan.sinceTs,
                            scan.senders[i].v, scan.username)
    IN /\ heldFor(scan, scan.senders[i].k) = sent
       /\ heldFor(scan, scan.senders[j].k) = [tot |-> 0, transactions |-> 0]
       /\ overallCount(scan) =
            allMatches(scan.ledger, remote.hist, scan.sinceTs,
                       ToSet(Values(scan.senders)), scan.username, "transactions")
       /\ scan.ledger = "hive" =>
            scan.totHiveSent =
              allMatches(scan.ledger, remote.hist, scan.sinceTs,
                         ToSet(Values(scan.senders)), scan.username, "tot")

requesting(sc) == sc.ledger = "hive" /\ sc.pc = "page"
\* the lowest index of a page as the remote sent it (ascending order)
lowestIndex(raw) == raw[1].idx

\* C32: in a native scan the first request, and only the first, uses
\* startIndex = -1; when a page arrives the next start index is its lowest
\* index minus 1, the scan ends without a further request when that is below
\* 0, and a further request uses exactly that index.
C32_StartIndices ==
    /\ [](requesting(scan) => ((scan.start = -1) <=> (scan.requests = 1)))
    /\ [][/\ (requesting(scan) /\ scan'.pc # "failed")
             => LET raw == getAccountHistory(remote.hist, scan.start, scan.limit)
                IN Len(raw) > 0 =>
                     /\ scan'.start = lowestIndex(raw) - 1
                     /\ scan'.start < 0 => scan'.pc = "done"
          /\ (scan.ledger = "hive" /\ scan'.requests = scan.requests + 1 /\ scan.requests >= 1)
             => scan'.start = scan.start /\ scan.start >= 0]_vars

\* the second request of a scan of three records by pages of two asks for
\* the records up to index 0
C32_Witness ==
    /\ requesting(scan) /\ scan.requests = 2 /\ scan.start = 0
    /\ scan.limit = 2 /\ Len(remote.hist) = 3 /\ scan.examined = <<2, 1>>

\* ------------------------------------------------------------------------
\* one scan whose page requests all return
\* ------------------------------------------------------------------------
\* a page request that is under way returns, the delay between two requests
\* elapses, the price requests return
\* the histories hold records between s1 and r
InitTermination ==
    /\ InitScan
    /\ cfg.hiveSenders \in {<<>>, <<[k |-> P_A, v |-> "s1"]>>}
    /\ cfg.ignoredReceivers = <<>>
    /\ \A i \in DOMAIN remote.hist :
          /\ {remote.hist[i].from, remote.hist[i].to} = {"s1", "r"}
          /\ remote.hist[i].sym \in {"HIVE", "DOOM"}
NextTermination ==
    \/ AnalyzeCall
    \/ AccountHistoryPage
    \/ TokenHistoryPage
    \/ ScanDelayOver
    \/ PricesFetched
\* every page request returns: weak fairness of the arrival of the page,
\* which is enabled exactly while a request is under way
requestUnderWay == scan.pc = "page"
PageReturns == AccountHistoryPage \/ TokenHistoryPage
EveryRequestReturns == []<>(~requestUnderWay) \/ []<><<PageReturns>>_vars
\* the code of the scan runs, its timer fires, the price requests return
SpecTermination ==
    /\ InitTermination /\ [][NextTermination]_vars
    /\ WF_vars(AnalyzeCall) /\ WF_vars(ScanDelayOver) /\ WF_vars(PricesFetched)
    /\ EveryRequestReturns

scanOver == scan.pc = "done"

\* C33: whatever the history and the cutoff, a scan whose page requests all
\* return ends, and it never makes more page requests than the history has
\* records plus one.
C33_ScanTerminates ==
    /\ [](scan.requests <= Len(remote.hist) + 1)
    /\ <>scanOver

\* a token scan by pages of one record needed four requests for three records
C33_Witness ==
    /\ scanOver /\ scan.ledger = "token"
    /\ Len(remote.hist) = 3 /\ scan.requests = 4 /\ scan.limit = 1

\* the call c of outbounds returns in this step
outboundsReturns(c) ==
    /\ calls[c].kind = "outbounds"
    /\ calls[c].status = "running" /\ calls'[c].status = "returned"

\* C34: when a call of outbounds returns, the shared ignoredReceivers has the
\* value it had when the call was made.
C34_IgnoredReceiversRestored ==
    [][\A c \in CallIds :
         outboundsReturns(c) =>
            cfg'.ignoredReceivers = calls[c].before.ignoredReceivers]_vars

\* ------------------------------------------------------------------------
\* one token-price lookup
\* ------------------------------------------------------------------------
restOfLookup == <<wr, now, cache, gn, bg, api, scan, remote, cfg, calls, ops, remoteCalls,
                  inflight, price, rep, runs>>

GetTokenPriceUsdCall ==
    /\ lookup.pc = "idle"
    /\ lookup' = getTokenPriceUsd(lookup, DEFAULT_RETRIES)
    /\ UNCHANGED restOfLookup
\* getHealthyHeNode() or getNodeEndpoint({ type: 'he', prevUrl }) returns an endpoint
NodeSelected ==
    /\ lookup.pc = "node"
    /\ lookup' = nodeSelected(lookup, DEFAULT_RETRIES)
    /\ UNCHANGED restOfLookup
\* or throws
NodeFailed ==
    /\ lookup.pc = "node"
    /\ lookup' = nodeFailed(lookup, connectivityError)
    /\ UNCHANGED restOfLookup
\* the request is answered, with res.ok or not
FetchResolves(ok) ==
    /\ lookup.pc = "fetch"
    /\ lookup' = fetchResolved(lookup, ok)
    /\ UNCHANGED restOfLookup
\* the request fails at transport level
FetchRejects ==
    /\ lookup.pc = "fetch"
    /\ lookup' = fetchRejected(lookup, DEFAULT_RETRIES)
    /\ UNCHANGED restOfLookup
FetchSleepOver ==
    /\ lookup.pc = "fetchSleep"
    /\ lookup' = fetchWake(lookup)
    /\ UNCHANGED restOfLookup
InnerSleepOver ==
    /\ lookup.pc = "innerSleep"
    /\ lookup' = innerWake(lookup)
    /\ UNCHANGED restOfLookup
OuterSleepOver ==
    /\ lookup.pc = "outerSleep"
    /\ lookup' = outerWake(lookup)
    /\ UNCHANGED restOfLookup

InitLookup ==
    /\ wr = WrIdle /\ now = StartTime /\ cache = CacheEmpty /\ gn = [p \in Callers |-> GnIdle]
    /\ bg = BgIdle /\ api = ApiIdle /\ scan = ScanIdle /\ remote = RemoteIdle
    /\ cfg = CfgIdle /\ calls = CallsIdle /\ ops = OpsIdle /\ remoteCalls = 0
    /\ runs = RunsIdle /\ inflight = {} /\ price = PriceIdle /\ rep = RepIdle
    /\ lookup = LookupIdle

NextLookup ==
    \/ GetTokenPriceUsdCall
    \/ NodeSelected
    \/ NodeFailed
    \/ \E ok \in BOOLEAN : FetchResolves(ok)
    \/ FetchRejects
    \/ FetchSleepOver
    \/ InnerSleepOver
    \/ OuterSleepOver

SpecLookup == InitLookup /\ [][NextLookup]_vars

\* C35: one lookup through TokenEarningsService.getTokenPriceUsd sends at most
\* retries + 1 = 4 price requests.
C35_AtMostFourRequests == lookup.requests <= DEFAULT_RETRIES + 1

\* C36: when a call of inbounds or outbounds has returned, every progress
\* ticker it started has been cleared.
C36_TickersCleared ==
    \A c \in CallIds : calls[c].status = "returned" => calls[c].tickers = 0

\* ------------------------------------------------------------------------
\* the two getHiveUsd calls of one inbound report: the one started with the
\* scans (analyzeAccountInbounds) and the one made after the token scan
\* (TokenEarningsService.analyzeInbound); the report is built only when both
\* have returned
\* ------------------------------------------------------------------------
bothPricesOfReport ==
    \A a \in PriceCallers : price.acts[a].pc = "returned" /\ price.acts[a].calls = 1

\* C37: when the two getHiveUsd calls of one inbound report have returned,
\* the price that converts the native total equals the price from which the
\* token prices are derived.
C37_OnePricePerReport ==
    bothPricesOfReport => price.acts[1].result = price.acts[2].result

\* ------------------------------------------------------------------------
\* a token-ledger scan of account r while the remote history grows
\* ------------------------------------------------------------------------
\* another transaction of account r is recorded by the ledger while the scan
\* is between two of its steps; it becomes the newest of the history
RecordAppended(o) ==
    /\ scan.ledger = "token" /\ scan.pc \in {"page", "sleep"}
    /\ Len(remote.hist) < MaxGrown
    /\ remote' = [remote EXCEPT !.hist = Append(@, o)]
    /\ UNCHANGED <<wr, now, cache, gn, bg, api, scan, cfg, calls, ops, remoteCalls,
                   inflight, price, rep, runs, lookup>>

InitGrowing ==
    /\ InitScan
    /\ scan.ledger = "token"
    /\ cfg.tokenSenders \in {<<>>, <<[k |-> P_A, v |-> "s1"]>>}

NextGrowing ==
    \/ AnalyzeCall
    \/ TokenHistoryPage
    \/ ScanDelayOver
    \/ PricesFetched
    \/ \E o \in TokenOps[scan.dir] : RecordAppended(o)

SpecGrowing == InitGrowing /\ [][NextGrowing]_vars

\* the record takes part in the sums of the scan
counted(sc, tx) ==
    IF sc.dir = "in" THEN tokenInbound(sc, tx)
    ELSE tokenOutbound(sc, tx) /\ ~shouldIgnore(sc, tx)
occurrences(seq, x) == Cardinality({i \in DOMAIN seq : seq[i] = x})

\* C38: in a token-ledger scan no record that is counted went through the
\* loop more than once, also when records were appended to the remote
\* history between two page requests.
C38_OnceUnderAppends ==
    \A pos \in DOMAIN remote.hist :
        counted(scan, tokenTx(remote.hist, pos)) =>
            occurrences(scan.examined, pos - 1) <= 1

\* ------------------------------------------------------------------------
\* the sums of an inbound scan with amounts as the doubles parseFloat returns
\* ------------------------------------------------------------------------
\* A double that is a whole number of units of 2^-56 is kept as two limbs,
\* hi * 2^28 + lo units; every amount and sum below is such a double.
Limb == 2 ^ 28
dbl(hi, lo) == [hi |-> hi, lo |-> lo]
Zero == dbl(0, 0)
\* parseFloat(opData.amount): the double nearest to the decimal amount
\* (0.1 is 0x1999999999999A * 2^-56, 1 is 2^56 * 2^-56)
parseFloat(amount) ==
    CASE amount = "0.100" -> dbl(26843545, 161061274)
      [] amount = "1.000" -> dbl(268435456, 0)
\* the sum as a real number
addExact(x, y) ==
    LET lo == x.lo + y.lo
    IN dbl(x.hi + y.hi + (lo \div Limb), lo % Limb)
RECURSIVE msb(_)
msb(n) == IF n < 2 THEN 0 ELSE 1 + msb(n \div 2)
\* to the nearest double, 53 significant bits, ties to the even one
roundToDouble(x) ==
    LET k == IF x.hi = 0 THEN 0 ELSE 28 + msb(x.hi)
        ulp == IF k > 52 THEN 2 ^ (k - 52) ELSE 1
        r == x.lo % ulp
        down == dbl(x.hi, x.lo - r)
        odd == ((x.lo - r) \div ulp) % 2 = 1
    IN IF 2 * r > ulp \/ (2 * r = ulp /\ odd) THEN addExact(down, dbl(0, ulp)) ELSE down
\* a + b of two numbers
addDouble(x, y) == roundToDouble(addExact(x, y))

\* the inbound transfer is added to the total only
hiveInboundTotalOnly(sc, e) ==
    IF hiveInbound(sc, e)
    THEN [sc EXCEPT !.totHiveSent = addDouble(@, parseFloat(e.amount))]
    ELSE sc
\* totHiveSent += amt; breakdown[category].tot += amt; ...transactions += 1
hiveInboundAmount(sc, e) ==
    IF hiveInbound(sc, e)
    THEN LET amt == parseFloat(e.amount)
             category == camelFromEnum(findKey(sc.senders, e.from))
             old == Get(sc.breakdown, category, [tot |-> Zero, transactions |-> 0])
         IN [sc EXCEPT !.totHiveSent = addDouble(@, amt),
                       !.breakdown = Put(@, category,
                            [tot |-> addDouble(old.tot, amt),
                             transactions |-> old.transactions + 1])]
    ELSE sc
RECURSIVE forOfAmounts(_, _, _)
forOfAmounts(sc, page, j) ==
    IF j > Len(page) THEN sc
    ELSE IF tsOf(sc, page[j]) < sc.sinceTs THEN [sc EXCEPT !.more = FALSE]
    ELSE forOfAmounts([hiveInboundAmount(sc, page[j]) EXCEPT
                          !.examined = Append(@, page[j].idx)], page, j + 1)
hivePageAmounts(sc, raw) ==
    IF Len(raw) = 0 THEN afterLoop(sc)
    ELSE LET page == reverse(raw)
             sc1 == forOfAmounts(sc, page, 1)
             sc2 == [sc1 EXCEPT !.start = nextStart(page)]
         IN IF sc2.start < 0 THEN afterLoop(sc2) ELSE [sc2 EXCEPT !.pc = "sleep"]
\* let totHiveSent = 0 and { tot: 0, transactions: 0 } of every category
analyzeAmounts(ledger, dir, username, since, c) ==
    [analyze(ledger, dir, username, since, c) EXCEPT
        !.totHiveSent = Zero,
        !.breakdown = [i \in DOMAIN @ |-> [k |-> @[i].k,
                                           v |-> [tot |-> Zero, transactions |-> 0]]]]

AnalyzeInboundCall ==
    /\ scan.pc = "called"
    /\ scan' = IF scan.ledger = "hive"
               THEN analyzeAmounts(scan.ledger, scan.dir, scan.username, scan.sinceTs, cfg)
               ELSE analyze(scan.ledger, scan.dir, scan.username, scan.sinceTs, cfg)
    /\ UNCHANGED restOfScan
AccountHistoryAmountsPage ==
    /\ scan.pc = "page" /\ scan.ledger = "hive"
    /\ scan' = hivePageAmounts(scan, getAccountHistory(remote.hist, scan.start, scan.limit))
    /\ UNCHANGED restOfScan

\* transfers of a tenth and of one HIVE to account r
FractionalOps ==
    {op("transfer", "s1", "r", "0.100", "HIVE"), op("transfer", "s1", "r", "1.000", "HIVE"),
     op("transfer", "s2", "r", "0.100", "HIVE"), op("transfer", "s2", "r", "1.000", "HIVE"),
     op("transfer", "x", "r", "1.000", "HIVE")}
SumMappings ==
    {<<[k |-> P_A, v |-> "s1"]>>,
     <<[k |-> P_A, v |-> "s1"], [k |-> P_B, v |-> "s2"]>>}

InitSums ==
    /\ wr = WrIdle /\ now = StartTime /\ cache = CacheEmpty /\ gn = [p \in Callers |-> GnIdle]
    /\ bg = BgIdle /\ api = ApiIdle
    /\ calls = CallsIdle /\ ops = OpsIdle /\ remoteCalls = 0
    /\ runs = RunsIdle /\ lookup = LookupIdle /\ inflight = {} /\ price = PriceIdle /\ rep = RepIdle
    /\ \E ledger \in {"hive", "token"} :
         \E hist \in SeqsUpTo(IF ledger = "hive" THEN FractionalOps ELSE TokenOps["in"], MaxHist),
            limit \in 1..MaxLimit, senders \in SumMappings :
           \E cutoff \in Cutoffs(hist) :
             /\ remote = [ledger |-> ledger, hist |-> hist]
             /\ cfg = [CfgIdle EXCEPT !.hiveSenders = senders, !.tokenSenders = senders,
                                      !.hiveHistoryLimit = limit, !.heHistoryLimit = limit]
             /\ scan = [ScanIdle EXCEPT !.pc = "called", !.ledger = ledger, !.dir = "in",
                                        !.username = "r", !.sinceTs = cutoff]

NextSums ==
    \/ AnalyzeInboundCall
    \/ AccountHistoryAmountsPage
    \/ TokenHistoryPage
    \/ ScanDelayOver
    \/ PricesFetched

SpecSums == InitSums /\ [][NextSums]_vars

\* Object.values(breakdown) summed as totHiveTransactions is, from 0
RECURSIVE sumTot(_)
sumTot(breakdown) ==
    IF breakdown = <<>> THEN Zero
    ELSE addDouble(sumTot(SubSeq(breakdown, 1, Len(breakdown) - 1)),
                   breakdown[Len(breakdown)].v.tot)
RECURSIVE sumCounts(_)
sumCounts(counts) ==
    IF counts = <<>> THEN 0
    ELSE sumOf(Values(counts[1].v)) + sumCounts(Tail(counts))
receivingCategories(breakdown) ==
    {i \in DOMAIN breakdown : breakdown[i].v.transactions > 0}
scanTotalsMatch(always) ==
    (scan.pc = "done" /\ scan.dir = "in") =>
        IF scan.ledger = "hive"
        THEN /\ scan.totHiveTransactions = sumTransactions(scan.breakdown)
             /\ (always \/ Cardinality(receivingCategories(scan.breakdown)) <= 1) =>
                    scan.totHiveSent = sumTot(scan.breakdown)
        ELSE scan.totTokensTransactions = sumCounts(scan.counts)

\* C39: at the end of an inbound scan totHiveTransactions is the sum of the
\* transactions of the categories and the token transactions total is the sum
\* of the counts per category and symbol; totHiveSent is the sum of the tot of
\* the categories when at most one category received transfers.
C39_TotalsMatchBreakdown == scanTotalsMatch(FALSE)

\* three transfers of one category: 0.1 + 0.1 + 1 = 1.2 on both sides
C39_Witness ==
    /\ scan.pc = "done" /\ scan.ledger = "hive" /\ Len(scan.breakdown) = 2
    /\ scan.totHiveSent = dbl(322122547, 53687088)
    /\ scan.totHiveTransactions = 3
    /\ scan.requests = 2

\* as stated: totHiveSent is the sum of the tot of the categories in every
\* inbound scan
C39_TotalsEqualSums == scanTotalsMatch(TRUE)
====
